---- MODULE Spec2Model ----
(***************************************************************************)
(* A model of the Karamel (TPD) front end: the indentation-sensitive       *)
(* recursive-descent parser working on a shared cursor {index,             *)
(* indentation, flags}, and the DynamicStorage that lays constants,        *)
(* variables and temporaries out in one memory vector of u8-indexed slots. *)
(*                                                                         *)
(* The parser is modelled functionally: every sub-parser is an operator    *)
(* from a cursor p = [index, indentation, flags] to a result               *)
(* [kind, ast, err, p], where kind is "ok" (Ok(ast)), "err" (Err(err)) or  *)
(* "panic" (the Rust code panicked), and p is the cursor the call leaves   *)
(* behind.  An action of SpecParser is one call of a sub-parser on the     *)
(* parser object; `call` records the cursor at entry and the result.       *)
(***************************************************************************)
EXTENDS Integers, Sequences, FiniteSets, TLC

VARIABLES
    tokens,       \* SyntaxParser.tokens: the token vector
    index,        \* SyntaxParser.index
    indentation,  \* SyntaxParser.indentation
    flags,        \* SyntaxParser.flags (bits of SyntaxFlag)
    call,         \* the last sub-parser call: entry cursor and result
    memory,       \* DynamicStorage.memory
    constants,    \* DynamicStorage.constants
    constant_size,\* DynamicStorage.constant_size
    temp_size,    \* DynamicStorage.temp_size
    temp_counter, \* DynamicStorage.temp_counter
    variables,    \* DynamicStorage.variables: name -> slot
    phase,        \* "building", "built" (no layout change since build()) or
                  \* "panicked"
    hist,         \* the constants added and the number of add and set calls so far
    ret,          \* what the last storage call returned
    opcodes,      \* BramaCompilerOption.opcodes
    storages,     \* BramaCompilerOption.storages
    modules,      \* BramaCompilerOption.modules: the names find_method resolves
    compiled,     \* the last compile call: its ast, the options at entry, its result
    functions,    \* KaramelCompilerContext.functions
    context_storages, \* KaramelCompilerContext.storages: the parent link of each
    found,        \* the last get_function call and what it returned
    messages,     \* the texts as_text rendered so far, with their errors
    opcode_class, \* a BasicInnerClass: its config and the names added so far
    vm_object,    \* the last VmObject word built, with what it was built from
    tokinizer,    \* Tokinizer: the characters, the position of iter, the column
    text_parser   \* TextParser::parse: where it is, its locals and its result

parser_vars  == <<tokens, index, indentation, flags, call>>
storage_vars == <<memory, constants, constant_size, temp_size, temp_counter,
                  variables, phase, hist, ret>>
compiler_vars == <<opcodes, storages, modules, compiled>>
context_vars == <<functions, context_storages, found>>
library_vars == <<messages, opcode_class, vm_object, tokinizer, text_parser>>
vars == <<tokens, index, indentation, flags, call, memory, constants,
          constant_size, temp_size, temp_counter, variables, phase, hist, ret,
          opcodes, storages, modules, compiled, functions, context_storages, found,
          messages, opcode_class, vm_object, tokinizer, text_parser>>

(***************************************************************************)
(* Bounds of the model.                                                    *)
(***************************************************************************)
MaxLen == 3        \* longest token vector enumerated exhaustively
MaxConstants == 2  \* add_constant calls on one storage
MaxSets == 1       \* set_variable_value calls on one storage
MaxTemps == 2      \* get_free_temp_slot calls between two resets

(***************************************************************************)
(* Machine integers.                                                       *)
(***************************************************************************)
U8 == 256
AsU8(n) == n % U8

RECURSIVE BitAnd(_, _)
BitAnd(a, b) ==
    IF a = 0 \/ b = 0 THEN 0
    ELSE (a % 2) * (b % 2) + 2 * BitAnd(a \div 2, b \div 2)

RECURSIVE BitOr(_, _)
BitOr(a, b) ==
    IF a = 0 THEN b
    ELSE IF b = 0 THEN a
    ELSE (IF a % 2 = 1 \/ b % 2 = 1 THEN 1 ELSE 0) + 2 * BitOr(a \div 2, b \div 2)

(***************************************************************************)
(* SyntaxFlag.                                                             *)
(***************************************************************************)
NONE == 0
FUNCTION_DEFINATION == 1
LOOP == 2
IN_ASSIGNMENT == 4
IN_EXPRESSION == 8
IN_FUNCTION_ARG == 16
IN_RETURN == 32
IN_DICT_INDEXER == 64
Contains(f, bit) == BitAnd(f, bit) = bit

(***************************************************************************)
(* Tokens.  A token is [type, name, size]: name is the keyword, operator   *)
(* or symbol, size the width of a WhiteSpace or NewLine or the value of an *)
(* Integer.                                                                *)
(***************************************************************************)
Tok(t, n, s) == [type |-> t, name |-> n, size |-> s]
Kw(k)  == Tok("Keyword", k, 0)
Op(o)  == Tok("Operator", o, 0)
Sym(s) == Tok("Symbol", s, 0)
IntTok(v) == Tok("Integer", "", v)
WS(n)  == Tok("WhiteSpace", "", n)
NL(n)  == Tok("NewLine", "", n)

(***************************************************************************)
(* AST nodes (BramaAstType).                                               *)
(***************************************************************************)
NoneAst == [type |-> "None"]
SymbolAst(n) == [type |-> "Symbol", name |-> n]
NumberAst(v) == [type |-> "Primative", prim |-> "Number", value |-> v]
TextAst(s) == [type |-> "Primative", prim |-> "Text", text |-> s]
BreakAst == [type |-> "Break"]
ContinueAst == [type |-> "Continue"]
ReturnAst(e) == [type |-> "Return", expr |-> e]
BlockAst(items) == [type |-> "Block", items |-> items]
ControlAst(l, o, r) == [type |-> "Control", left |-> l, operator |-> o, right |-> r]
BinaryAst(l, o, r) == [type |-> "Binary", left |-> l, operator |-> o, right |-> r]
EndlessLoopAst(b) == [type |-> "EndlessLoop", body |-> b]
AssignmentAst(v, o, e) ==
    [type |-> "Assignment", variable |-> v, operator |-> o, expression |-> e]
FuncCallAst(f, a, t) ==
    [type |-> "FuncCall", func_name_expression |-> f, arguments |-> a,
     assign_to_temp |-> t]
IndexerAst(b, i) == [type |-> "Indexer", body |-> b, indexer |-> i]
AccessorFuncCallAst(s, i, t) ==
    [type |-> "AccessorFuncCall", source |-> s, indexer |-> i, assign_to_temp |-> t]
FunctionDefinationAst(n, b, a) ==
    [type |-> "FunctionDefination", name |-> n, body |-> b, arguments |-> a]

(***************************************************************************)
(* Results of a sub-parser.                                                *)
(***************************************************************************)
Ok(ast, p)  == [kind |-> "ok", ast |-> ast, err |-> "", p |-> p]
Err(e, p)   == [kind |-> "err", ast |-> NoneAst, err |-> e, p |-> p]
Panic(p)    == [kind |-> "panic", ast |-> NoneAst, err |-> "panic", p |-> p]

(***************************************************************************)
(* The cursor primitives of SyntaxParser.                                  *)
(***************************************************************************)
HasToken(i) == i < Len(tokens)
TokenAt(i) == tokens[i + 1]

set_index(p, i) == [p EXCEPT !.index = i]
set_indentation(p, n) == [p EXCEPT !.indentation = n]
set_flags(p, f) == [p EXCEPT !.flags = f]
consume_token(p) == [p EXCEPT !.index = @ + 1]

peek_is(p, t) == HasToken(p.index) /\ TokenAt(p.index).type = t
check_keyword(k, p) == peek_is(p, "Keyword") /\ TokenAt(p.index).name = k
check_operator(o, p) == peek_is(p, "Operator") /\ TokenAt(p.index).name = o
get_newline(p) == peek_is(p, "NewLine")

RECURSIVE match_operator(_, _)
match_operator(operators, p) ==
    IF operators = <<>> THEN [found |-> FALSE, op |-> "None", p |-> p]
    ELSE IF check_operator(Head(operators), p)
         THEN [found |-> TRUE, op |-> Head(operators), p |-> consume_token(p)]
         ELSE match_operator(Tail(operators), p)

RECURSIVE cleanup_whitespaces(_)
cleanup_whitespaces(p) ==
    IF peek_is(p, "WhiteSpace") THEN cleanup_whitespaces(consume_token(p)) ELSE p

RECURSIVE cleanup(_)
cleanup(p) ==
    IF peek_is(p, "WhiteSpace") \/ peek_is(p, "NewLine")
    THEN cleanup(consume_token(p)) ELSE p

(***************************************************************************)
(* Token.start: the column at which the token starts.  The tokenizer       *)
(* starts a line at the width its NewLine carries; every token other than  *)
(* WhiteSpace is taken to be one column wide.                              *)
(***************************************************************************)
RECURSIVE StartOf(_)
StartOf(i) ==
    IF i = 0 THEN 0
    ELSE LET prev == TokenAt(i - 1) IN
         IF prev.type = "NewLine" THEN prev.size
         ELSE IF prev.type = "WhiteSpace" THEN StartOf(i - 1) + prev.size
         ELSE StartOf(i - 1) + 1

(***************************************************************************)
(* indentation_check, in_indication, is_same_indentation.                  *)
(***************************************************************************)
RECURSIVE indentation_loop(_)
indentation_loop(p) ==
    IF ~HasToken(p.index) THEN Ok(NoneAst, p)
    ELSE LET t == TokenAt(p.index) IN
         IF t.type = "NewLine" THEN
            IF ~HasToken(p.index + 1) THEN Panic(p)
            ELSE IF TokenAt(p.index + 1).type = "NewLine"
                    \/ t.size = AsU8(p.indentation)
                 THEN indentation_loop(consume_token(p))
                 ELSE Err("IndentationIssue", p)
         ELSE IF t.type = "WhiteSpace" THEN
            IF t.size = AsU8(p.indentation)
            THEN indentation_loop(consume_token(p))
            ELSE Err("IndentationIssue", p)
         ELSE Ok(NoneAst, p)

indentation_check(p) ==
    IF ~HasToken(p.index + 1) THEN Ok(NoneAst, p) ELSE indentation_loop(p)

RECURSIVE in_indication_loop(_)
in_indication_loop(p) ==
    IF ~HasToken(p.index) THEN Ok(NoneAst, p)
    ELSE LET t == TokenAt(p.index) IN
         IF t.type = "NewLine" THEN
            IF ~HasToken(p.index + 1) THEN Panic(p)
            ELSE IF TokenAt(p.index + 1).type = "NewLine"
                 THEN in_indication_loop(consume_token(p))
                 ELSE IF t.size > AsU8(p.indentation)
                      THEN in_indication_loop(
                               consume_token(set_indentation(p, t.size)))
                      ELSE Err("IndentationIssue", p)
         ELSE Ok(NoneAst, p)

in_indication(p) ==
    IF ~HasToken(p.index + 1) THEN Ok(NoneAst, p) ELSE in_indication_loop(p)

\* is_same_indentation, with the cursor it leaves behind (indentation_check
\* consumes tokens).
same_indentation_after(n, ic) ==
    [p |-> ic.p,
     panic |-> ic.kind = "panic",
     same |-> /\ ic.kind = "ok"
              /\ n = ic.p.indentation
              /\ HasToken(ic.p.index)
              /\ StartOf(ic.p.index) = n]

is_same_indentation(n, p) == same_indentation_after(n, indentation_check(p))

(***************************************************************************)
(* Each sub-parser is written as a chain of operators, one per step, each  *)
(* taking the result of the step before.  T_parse(T, p) is T::parse for a  *)
(* parser given by name: the type parameter T of parse_control and the     *)
(* entries of the statement list.  It is defined after the sub-parsers.    *)
(***************************************************************************)
RECURSIVE T_parse(_, _)
RECURSIVE ExpressionParser(_)
RECURSIVE StatementParser(_)
RECURSIVE SingleLineBlockParser(_)
RECURSIVE MultiLineBlockParser(_)

parse_symbol(p) ==
    IF peek_is(p, "Symbol")
    THEN Ok(SymbolAst(TokenAt(p.index).name), consume_token(p))
    ELSE Ok(NoneAst, p)

RECURSIVE update_functions_for_temp_return(_)
RECURSIVE update_all(_)
update_all(asts) ==
    IF asts = <<>> THEN <<>>
    ELSE <<update_functions_for_temp_return(Head(asts))>> \o update_all(Tail(asts))

update_functions_for_temp_return(ast) ==
    CASE ast.type = "FuncCall" ->
            FuncCallAst(update_functions_for_temp_return(ast.func_name_expression),
                        ast.arguments, TRUE)
      [] ast.type = "AccessorFuncCall" ->
            AccessorFuncCallAst(update_functions_for_temp_return(ast.source),
                                ast.indexer, TRUE)
      [] ast.type \in {"Control", "Binary"} ->
            [ast EXCEPT !.left = update_functions_for_temp_return(@),
                        !.right = update_functions_for_temp_return(@)]
      [] ast.type = "Indexer" ->
            [ast EXCEPT !.body = update_functions_for_temp_return(@)]
      [] ast.type = "Block" -> BlockAst(update_all(ast.items))
      [] OTHER -> ast

\* A failure of an inner parser, passed on with the index restored.
restore_on_err(index_backup, r) ==
    IF r.kind = "err" THEN Err(r.err, set_index(r.p, index_backup)) ELSE r

(***************************************************************************)
(* FuncCallParser, UnaryParser::parse_indexer, PrimativeParser and the     *)
(* binary levels below parse_control.                                      *)
(***************************************************************************)
ArgsResult(kind, err, arguments, p) ==
    [kind |-> kind, err |-> err, arguments |-> arguments, p |-> p]

FuncCallParser_parsable(p) == check_operator("LeftParentheses", p)

RECURSIVE func_call_arguments(_, _, _)
func_call_argument(arguments, after_comma, parser_flags, e) ==
    IF e.kind # "ok"
    THEN ArgsResult(e.kind, e.err, arguments, set_flags(e.p, parser_flags))
    ELSE IF e.ast.type = "None"
    THEN ArgsResult(IF after_comma THEN "err" ELSE "ok",
                    IF after_comma THEN "SyntaxError" ELSE "",
                    arguments, set_flags(e.p, parser_flags))
    ELSE IF check_operator("Comma", cleanup_whitespaces(e.p))
    THEN func_call_arguments(
             set_flags(consume_token(cleanup_whitespaces(e.p)), parser_flags),
             Append(arguments, e.ast), TRUE)
    ELSE ArgsResult("ok", "", Append(arguments, e.ast),
                    set_flags(cleanup_whitespaces(e.p), parser_flags))

\* The arguments of a call, each parsed under IN_FUNCTION_ARG.
func_call_arguments(p, arguments, after_comma) ==
    IF ~after_comma /\ check_operator("RightParentheses", cleanup_whitespaces(p))
    THEN ArgsResult("ok", "", arguments, cleanup_whitespaces(p))
    ELSE func_call_argument(
             arguments, after_comma, p.flags,
             ExpressionParser(
                     set_flags(cleanup_whitespaces(p), BitOr(p.flags, IN_FUNCTION_ARG))))

func_call_close(ast, index_backup, a) ==
    IF a.kind = "panic" THEN Panic(a.p)
    ELSE IF a.kind = "err" THEN Err(a.err, set_index(a.p, index_backup))
    ELSE IF ~check_operator("RightParentheses", a.p)
    THEN Err("RightParanthesesMissing", set_index(a.p, index_backup))
    ELSE Ok(FuncCallAst(ast, a.arguments, FALSE), consume_token(a.p))

FuncCallParser_parse_suffix(ast, p) ==
    IF ~check_operator("LeftParentheses", p) THEN Ok(ast, p)
    ELSE func_call_close(ast, p.index,
                         func_call_arguments(consume_token(p), <<>>, FALSE))

parse_indexer_close(ast, index_backup, e) ==
    IF e.kind # "ok" THEN restore_on_err(index_backup, e)
    ELSE IF e.ast.type = "None"
            \/ ~check_operator("SquareBracketEnd", cleanup_whitespaces(e.p))
    THEN Err("ArrayNotClosed", set_index(e.p, index_backup))
    ELSE Ok(IndexerAst(ast, e.ast), consume_token(cleanup_whitespaces(e.p)))

UnaryParser_parse_indexer(ast, p) ==
    IF ~check_operator("SquareBracketStart", p) THEN Ok(ast, p)
    ELSE parse_indexer_close(
             ast, p.index,
             ExpressionParser( cleanup_whitespaces(consume_token(p))))

parse_parenthesis_close(index_backup, e) ==
    IF e.kind # "ok" THEN restore_on_err(index_backup, e)
    ELSE IF e.ast.type = "None"
    THEN Err("InvalidExpression", set_index(e.p, index_backup))
    ELSE IF ~check_operator("RightParentheses", cleanup_whitespaces(e.p))
    THEN Err("ParenthesesNotClosed", set_index(e.p, index_backup))
    ELSE Ok(e.ast, consume_token(cleanup_whitespaces(e.p)))

PrimativeParser(p) ==
    IF peek_is(p, "Integer")
    THEN Ok(NumberAst(TokenAt(p.index).size), consume_token(p))
    ELSE IF peek_is(p, "Symbol") THEN parse_symbol(p)
    ELSE IF check_operator("LeftParentheses", p)
    THEN parse_parenthesis_close(
             p.index,
             ExpressionParser( cleanup_whitespaces(consume_token(p))))
    ELSE Ok(NoneAst, p)

\* Level 8: a primary, and a call `symbol(args)` made on it.
unary_call(index_backup, r) ==
    IF r.kind = "ok" /\ r.ast.type = "Symbol" /\ FuncCallParser_parsable(r.p)
    THEN restore_on_err(index_backup, FuncCallParser_parse_suffix(r.ast, r.p))
    ELSE r

UnaryParser(p) == unary_call(p.index, PrimativeParser(p))

RECURSIVE binary_loop(_, _, _, _, _)
binary_right(T, operators, left_expr, entry, operator, right_expr) ==
    IF right_expr.kind # "ok" THEN restore_on_err(entry, right_expr)
    ELSE IF right_expr.ast.type = "None"
    THEN Err("RightSideOfExpressionNotFound", set_index(right_expr.p, entry))
    ELSE binary_loop(T, operators,
                     BinaryAst(update_functions_for_temp_return(left_expr),
                               operator, right_expr.ast),
                     entry, right_expr.p)

binary_loop(T, operators, left_expr, entry, p) ==
    LET m == match_operator(operators, cleanup_whitespaces(p)) IN
    IF m.found
    THEN binary_right(T, operators, left_expr, entry, m.op,
                      T_parse(T, cleanup_whitespaces(m.p)))
    ELSE Ok(left_expr, p)

\* A left-associative binary level over the operand parser T; left_expr is
\* the result of T::parse for the left operand, entry the index before it.
parse_binary(T, operators, entry, left_expr) ==
    IF left_expr.kind # "ok" \/ left_expr.ast.type = "None" THEN left_expr
    ELSE binary_loop(T, operators, left_expr.ast, entry, left_expr.p)

MultiDivideParser(p) ==
    parse_binary("UnaryParser", <<"Multiplication", "Division", "Modulo">>,
                 p.index, UnaryParser(p))

AddSubtractParser(p) ==
    parse_binary("MultiDivideParser", <<"Addition", "Subtraction">>,
                 p.index, MultiDivideParser(p))

(***************************************************************************)
(* parse_control and the four levels built on it; ExpressionParser.        *)
(***************************************************************************)
RECURSIVE control_loop(_, _, _, _, _)

\* As control_right, the new operator taken under the right operand of the
\* Control built so far.
control_right_RightNested(T, operators, left_expr, index_backup, parser_flags, operator, right_expr) ==
    IF right_expr.kind = "ok" /\ right_expr.ast.type = "None"
    THEN Err("Right side of expression not found",
             set_index(right_expr.p, index_backup))
    ELSE IF right_expr.kind # "ok" THEN right_expr
    ELSE control_loop(T, operators,
                      IF left_expr.type = "Control"
                      THEN ControlAst(left_expr.left, left_expr.operator,
                                      ControlAst(left_expr.right, operator,
                                                 right_expr.ast))
                      ELSE ControlAst(left_expr, operator, right_expr.ast),
                      TRUE, set_flags(right_expr.p, parser_flags))

\* The right operand has been parsed: lines 123-137 of parse_control.
control_right(T, operators, left_expr, index_backup, parser_flags, operator, right_expr) ==
    IF right_expr.kind = "ok" /\ right_expr.ast.type = "None"
    THEN Err("Right side of expression not found",
             set_index(right_expr.p, index_backup))
    ELSE IF right_expr.kind # "ok" THEN right_expr
    ELSE control_loop(T, operators,
                      ControlAst(left_expr, operator, right_expr.ast), TRUE,
                      set_flags(right_expr.p, parser_flags))

\* One turn of the loop of parse_control.
control_loop(T, operators, left_expr, functions_updated_for_temp, p) ==
    LET m == match_operator(operators, cleanup_whitespaces(p)) IN
    IF m.found
    THEN control_right(
             T, operators,
             IF ~functions_updated_for_temp
             THEN update_functions_for_temp_return(left_expr) ELSE left_expr,
             p.index, m.p.flags, m.op,
             T_parse(T, set_flags(cleanup_whitespaces(m.p),
                                  BitOr(m.p.flags, IN_EXPRESSION))))
    ELSE Ok(left_expr, set_index(cleanup_whitespaces(p), p.index))

\* parse_control::<T>; left_expr is the result of T::parse(parser) at line
\* 103, which every caller passes as T's own parse of its cursor.
parse_control(T, operators, left_expr) ==
    IF left_expr.kind # "ok" THEN left_expr
    ELSE IF left_expr.ast.type = "None" THEN left_expr
    ELSE control_loop(T, operators, left_expr.ast, FALSE, left_expr.p)

ControlParser(p) ==
    parse_control("AddSubtractParser",
                  <<"GreaterEqualThan", "GreaterThan", "LessEqualThan", "LessThan">>,
                  AddSubtractParser(p))
EqualityParser(p) ==
    parse_control("ControlParser", <<"Equal", "NotEqual">>, ControlParser(p))
AndParser(p) == parse_control("EqualityParser", <<"And">>, EqualityParser(p))
OrParser(p) == parse_control("AndParser", <<"Or">>, AndParser(p))

\* After `.`: the member or the method call.
expression_accessor(ast, sub_ast) ==
    IF sub_ast.kind # "ok" THEN sub_ast
    ELSE IF sub_ast.ast.type = "Symbol"
    THEN Ok(IndexerAst(ast, TextAst(sub_ast.ast.name)), sub_ast.p)
    ELSE IF sub_ast.ast.type = "FuncCall"
            /\ sub_ast.ast.func_name_expression.type = "Symbol"
    THEN Ok(AccessorFuncCallAst(update_functions_for_temp_return(ast),
                                sub_ast.ast, FALSE), sub_ast.p)
    ELSE Err("Function call syntax not valid", sub_ast.p)

expression_suffix(o) ==
    IF o.kind # "ok" THEN o
    ELSE IF FuncCallParser_parsable(o.p)
    THEN FuncCallParser_parse_suffix(update_functions_for_temp_return(o.ast), o.p)
    ELSE IF check_operator("Dot", o.p)
    THEN expression_accessor(o.ast, ExpressionParser( consume_token(o.p)))
    ELSE IF check_operator("SquareBracketStart", o.p)
    THEN UnaryParser_parse_indexer(o.ast, o.p)
    ELSE o

ExpressionParser(p) == expression_suffix(OrParser(p))

(***************************************************************************)
(* Statements and blocks.                                                  *)
(***************************************************************************)
\* break / continue accepted whatever the flags are.
loop_item_AnyFlags(index_backup, ic) ==
    IF ic.kind # "ok" THEN ic
    ELSE IF check_keyword("Break", ic.p) \/ check_keyword("Continue", ic.p)
    THEN Ok(IF check_keyword("Break", ic.p) THEN BreakAst ELSE ContinueAst,
            consume_token(ic.p))
    ELSE Ok(NoneAst, set_index(ic.p, index_backup))

\* break / continue: accepted only while LOOP is set.
loop_item(index_backup, ic) ==
    IF ic.kind # "ok" THEN ic
    ELSE IF check_keyword("Break", ic.p) \/ check_keyword("Continue", ic.p)
    THEN IF Contains(ic.p.flags, LOOP)
         THEN Ok(IF check_keyword("Break", ic.p) THEN BreakAst ELSE ContinueAst,
                 consume_token(ic.p))
         ELSE Err("BreakAndContinueBelongToLoops", set_index(ic.p, index_backup))
    ELSE Ok(NoneAst, set_index(ic.p, index_backup))

LoopItemParser(p) == loop_item(p.index, indentation_check(p))

\* return: accepted only while FUNCTION_DEFINATION is set.
function_return_value(index_backup, parser_flags, e) ==
    IF e.kind = "panic" THEN e
    ELSE IF e.kind = "err"
    THEN Err(e.err, set_flags(set_index(e.p, index_backup), parser_flags))
    ELSE Ok(ReturnAst(e.ast), set_flags(e.p, parser_flags))

function_return(index_backup, ic) ==
    IF ic.kind # "ok" THEN ic
    ELSE IF ~check_keyword("Return", ic.p)
    THEN Ok(NoneAst, set_index(ic.p, index_backup))
    ELSE IF ~Contains(ic.p.flags, FUNCTION_DEFINATION)
    THEN Err("ReturnMustBeUsedInFunction", set_index(ic.p, index_backup))
    ELSE function_return_value(
             index_backup, ic.p.flags,
             ExpressionParser(
                     set_flags(cleanup_whitespaces(consume_token(ic.p)),
                               BitOr(ic.p.flags, IN_RETURN))))

FunctionReturnParser(p) == function_return(p.index, indentation_check(p))

AssignOperators ==
    <<"Assign", "AssignAddition", "AssignSubtraction", "AssignMultiplication",
      "AssignDivision">>

assignment_expression(index_backup, parser_flags, variable, operator, e) ==
    IF e.kind = "panic" THEN e
    ELSE IF e.kind = "err"
    THEN Err(e.err, set_flags(set_index(e.p, index_backup), parser_flags))
    ELSE IF e.ast.type = "None"
    THEN Err("RightSideOfExpressionNotFound",
             set_flags(set_index(e.p, index_backup), parser_flags))
    ELSE Ok(AssignmentAst(variable, operator, e.ast), set_flags(e.p, parser_flags))

assignment_variable(index_backup, v) ==
    IF v.kind # "ok" THEN restore_on_err(index_backup, v)
    ELSE IF v.ast.type \notin {"Symbol", "Indexer"}
    THEN Ok(NoneAst, set_index(v.p, index_backup))
    ELSE LET m == match_operator(AssignOperators, cleanup_whitespaces(v.p)) IN
         IF ~m.found THEN Ok(NoneAst, set_index(v.p, index_backup))
         ELSE assignment_expression(
                  index_backup, m.p.flags, v.ast, m.op,
                  ExpressionParser(
                          set_flags(cleanup_whitespaces(m.p),
                                    BitOr(m.p.flags, IN_ASSIGNMENT))))

assignment(index_backup, ic) ==
    IF ic.kind # "ok" THEN ic
    ELSE assignment_variable(index_backup, ExpressionParser( ic.p))

AssignmentParser(p) == assignment(p.index, indentation_check(p))

\* The body after `:` of a function or loop: a multi-line block after a
\* newline and a deeper indentation, a single-line block otherwise.
body_block(ii) ==
    IF ii.kind # "ok" THEN ii ELSE MultiLineBlockParser(ii.p)

BodyParser(p) ==
    IF get_newline(p) THEN body_block(in_indication(p))
    ELSE SingleLineBlockParser(p)

endless_loop_body(index_backup, entry_indentation, parser_flags, body) ==
    IF body.kind = "panic" THEN body
    ELSE IF body.kind = "err"
    THEN Err(body.err,
             set_flags(set_indentation(set_index(body.p, index_backup),
                                       entry_indentation), parser_flags))
    ELSE IF body.ast.type = "None"
    THEN Err("FunctionConditionBodyNotFound",
             set_flags(set_indentation(set_index(body.p, index_backup),
                                       entry_indentation), parser_flags))
    ELSE Ok(EndlessLoopAst(body.ast),
            set_flags(set_indentation(body.p, entry_indentation), parser_flags))

endless_loop(index_backup, ic) ==
    IF ic.kind # "ok" THEN ic
    ELSE IF ~check_keyword("Endless", ic.p)
    THEN Ok(NoneAst, set_index(ic.p, index_backup))
    ELSE IF ~check_operator("ColonMark", cleanup_whitespaces(consume_token(ic.p)))
    THEN Err("ColonMarkMissing", set_index(ic.p, index_backup))
    ELSE endless_loop_body(
             index_backup, ic.p.indentation, ic.p.flags,
             BodyParser(set_flags(
                 cleanup_whitespaces(consume_token(
                     cleanup_whitespaces(consume_token(ic.p)))),
                 BitOr(ic.p.flags, LOOP))))

EndlessLoopParser(p) == endless_loop(p.index, indentation_check(p))

\* The statement forms, tried in order; the first that is not None wins.
\* r is the result of the form tried last, parsers the forms still to try.
RECURSIVE map_parser(_, _)
map_parser(parsers, r) ==
    IF r.kind # "ok" \/ r.ast.type # "None" \/ parsers = <<>> THEN r
    ELSE map_parser(Tail(parsers), T_parse(Head(parsers), r.p))

StatementParser(p) ==
    map_parser(<<"FunctionDefinationParser", "EndlessLoopParser", "LoopItemParser",
                 "FunctionReturnParser", "AssignmentParser", "ExpressionParser">>,
               Ok(NoneAst, p))

BlockResult(kind, err, asts, p) ==
    [kind |-> kind, err |-> err, asts |-> asts, p |-> p]

RECURSIVE block_loop(_, _, _, _)
block_same(asts, multiline, current_indentation, same) ==
    IF same.panic THEN BlockResult("panic", "panic", asts, same.p)
    ELSE IF ~same.same THEN BlockResult("ok", "", asts, same.p)
    ELSE block_loop(same.p, asts, multiline, current_indentation)

block_statement(asts, multiline, current_indentation, st) ==
    IF st.kind # "ok" THEN BlockResult(st.kind, st.err, asts, st.p)
    ELSE IF st.ast.type = "None" THEN BlockResult("ok", "", asts, st.p)
    ELSE IF ~multiline THEN BlockResult("ok", "", Append(asts, st.ast), st.p)
    ELSE block_same(Append(asts, st.ast), multiline, current_indentation,
                    is_same_indentation(current_indentation,
                                        cleanup_whitespaces(st.p)))

block_indentation(asts, multiline, current_indentation, ic) ==
    IF ic.kind # "ok" THEN BlockResult(ic.kind, ic.err, asts, ic.p)
    ELSE block_statement(asts, multiline, current_indentation,
                         StatementParser(ic.p))

block_loop(p, asts, multiline, current_indentation) ==
    block_indentation(asts, multiline, current_indentation, indentation_check(p))

block_result_AlwaysBlock(index_backup, r) ==
    IF r.kind = "panic" THEN Panic(r.p)
    ELSE IF r.kind = "err" THEN Err(r.err, set_index(r.p, index_backup))
    ELSE IF Len(r.asts) = 0 THEN Ok(NoneAst, set_index(r.p, index_backup))
    ELSE Ok(BlockAst(r.asts), r.p)

block_result(index_backup, r) ==
    IF r.kind = "panic" THEN Panic(r.p)
    ELSE IF r.kind = "err" THEN Err(r.err, set_index(r.p, index_backup))
    ELSE IF Len(r.asts) = 0 THEN Ok(NoneAst, set_index(r.p, index_backup))
    ELSE IF Len(r.asts) = 1 THEN Ok(r.asts[1], r.p)
    ELSE Ok(BlockAst(r.asts), r.p)

SingleLineBlockParser(p) ==
    block_result(p.index, block_loop(p, <<>>, FALSE, p.indentation))

MultiLineBlockParser(p) ==
    block_result(p.index, block_loop(p, <<>>, TRUE, p.indentation))

(***************************************************************************)
(* FunctionDefinationParser::parse.                                        *)
(***************************************************************************)
\* The argument loop between the parentheses.
RECURSIVE function_arguments(_, _, _)
function_argument(arguments, index_backup, argument) ==
    IF argument.kind # "ok"
    THEN ArgsResult(argument.kind, argument.err, arguments, argument.p)
    ELSE IF argument.ast.type = "None"
    THEN ArgsResult("err", "ArgumentMustBeText", arguments,
                    set_index(argument.p, index_backup))
    ELSE IF argument.ast.type # "Symbol"
    THEN ArgsResult("err", "ArgumentNotFound", arguments,
                    set_index(argument.p, index_backup))
    ELSE IF check_operator("Comma", cleanup_whitespaces(argument.p))
    THEN function_arguments(consume_token(cleanup_whitespaces(argument.p)),
                            Append(arguments, argument.ast.name), index_backup)
    ELSE ArgsResult("ok", "", Append(arguments, argument.ast.name),
                    cleanup_whitespaces(argument.p))

function_arguments(p, arguments, index_backup) ==
    IF check_operator("RightParentheses", cleanup_whitespaces(p))
    THEN ArgsResult("ok", "", arguments, cleanup_whitespaces(p))
    ELSE function_argument(arguments, index_backup,
                           parse_symbol(cleanup_whitespaces(p)))

\* has_return: whether the parsed body already ends in Return.
has_return(body) ==
    CASE body.type = "Return" -> TRUE
      [] body.type = "Block" -> body.items[Len(body.items)].type = "Return"
      [] OTHER -> FALSE

\* The body with Return(None) appended when has_return is false.
with_return_NoWrap(body) ==
    IF has_return(body) \/ body.type # "Block" THEN body
    ELSE BlockAst(Append(body.items, ReturnAst(NoneAst)))

with_return_Replace(body) ==
    IF has_return(body) THEN body
    ELSE IF body.type = "Block"
         THEN BlockAst(SubSeq(body.items, 1, Len(body.items) - 1)
                       \o <<ReturnAst(body.items[Len(body.items)])>>)
         ELSE BlockAst(<<ReturnAst(body)>>)

with_return(body) ==
    IF has_return(body) THEN body
    ELSE IF body.type = "Block"
         THEN BlockAst(Append(body.items, ReturnAst(NoneAst)))
         ELSE BlockAst(<<body, ReturnAst(NoneAst)>>)

\* The body has been parsed: it is completed and the flags are restored.
function_defination_body(index_backup, entry_indentation, name, arguments, parser_flags, body) ==
    IF body.kind # "ok" THEN body
    ELSE IF body.ast.type = "Block" /\ Len(body.ast.items) = 0 THEN Panic(body.p)
    ELSE IF body.ast.type = "None"
    THEN Err("FunctionConditionBodyNotFound", set_index(body.p, index_backup))
    ELSE [kind |-> "ok",
          ast |-> FunctionDefinationAst(name, with_return(body.ast), arguments),
          err |-> "",
          p |-> set_flags(set_indentation(body.p, entry_indentation), parser_flags),
          parsed_body |-> body.ast]

\* `:` and the body, parsed under FUNCTION_DEFINATION.
function_defination_colon(index_backup, entry_indentation, name, arguments, p) ==
    IF ~check_operator("ColonMark", cleanup_whitespaces(p))
    THEN Err("ColonMarkMissing", set_index(cleanup_whitespaces(p), index_backup))
    ELSE function_defination_body(
             index_backup, entry_indentation, name, arguments, p.flags,
             BodyParser(set_flags(
                 cleanup_whitespaces(consume_token(cleanup_whitespaces(p))),
                 BitOr(p.flags, FUNCTION_DEFINATION))))

function_defination_right_parentheses(index_backup, entry_indentation, name, args) ==
    IF args.kind = "panic" THEN Panic(args.p)
    ELSE IF args.kind = "err" THEN Err(args.err, args.p)
    ELSE IF ~check_operator("RightParentheses", args.p)
    THEN Err("RightParanthesesMissing", set_index(args.p, index_backup))
    ELSE function_defination_colon(index_backup, entry_indentation, name,
                                   args.arguments, consume_token(args.p))

function_defination_name(index_backup, entry_indentation, name_expression) ==
    IF name_expression.kind # "ok" THEN name_expression
    ELSE IF name_expression.ast.type # "Symbol"
    THEN Err("FunctionNameNotDefined", set_index(name_expression.p, index_backup))
    ELSE IF check_operator("LeftParentheses", cleanup_whitespaces(name_expression.p))
    THEN function_defination_right_parentheses(
             index_backup, entry_indentation, name_expression.ast.name,
             function_arguments(
                 consume_token(cleanup_whitespaces(name_expression.p)), <<>>,
                 index_backup))
    ELSE function_defination_colon(index_backup, entry_indentation,
                                   name_expression.ast.name, <<>>,
                                   cleanup_whitespaces(name_expression.p))

function_defination_keyword(index_backup, ic) ==
    IF ic.kind # "ok" THEN ic
    ELSE IF ~check_keyword("Fn", ic.p) THEN Ok(NoneAst, set_index(ic.p, index_backup))
    ELSE function_defination_name(
             index_backup, ic.p.indentation,
             parse_symbol(cleanup_whitespaces(consume_token(ic.p))))

FunctionDefinationParser(p) ==
    function_defination_keyword(p.index, indentation_check(p))

(***************************************************************************)
(* T::parse: the call of the sub-parser named T.                           *)
(***************************************************************************)
T_parse(T, p) ==
    CASE T = "ExpressionParser" -> ExpressionParser(p)
      [] T = "EqualityParser" -> EqualityParser(p)
      [] T = "ControlParser" -> ControlParser(p)
      [] T = "AndParser" -> AndParser(p)
      [] T = "AddSubtractParser" -> AddSubtractParser(p)
      [] T = "MultiDivideParser" -> MultiDivideParser(p)
      [] T = "UnaryParser" -> UnaryParser(p)
      [] T = "FunctionDefinationParser" -> FunctionDefinationParser(p)
      [] T = "EndlessLoopParser" -> EndlessLoopParser(p)
      [] T = "LoopItemParser" -> LoopItemParser(p)
      [] T = "FunctionReturnParser" -> FunctionReturnParser(p)
      [] T = "AssignmentParser" -> AssignmentParser(p)

\* SyntaxParser::parse: the top-level block, then nothing may be left over.
syntax_parser_cleanup_NoCheck(b) ==
    IF b.kind # "ok" THEN b ELSE Ok(b.ast, cleanup(b.p))

syntax_parser_cleanup(b) ==
    IF b.kind # "ok" THEN b
    ELSE IF HasToken(cleanup(b.p).index) THEN Err("SyntaxError", cleanup(b.p))
    ELSE Ok(b.ast, cleanup(b.p))

SyntaxParser_parse(p) == syntax_parser_cleanup(MultiLineBlockParser(p))

(***************************************************************************)
(* The token vectors the parser is run on: every vector of at most MaxLen  *)
(* tokens of Alphabet, and a corpus of longer programs.                    *)
(***************************************************************************)
Alphabet ==
    {Kw("Fn"), Kw("Endless"), Kw("Break"), Kw("Return"), Sym("a"),
     Op("ColonMark"), Op("Equal"), Op("Dot"), Op("Assign"), NL(0), NL(1)}

SeqsUpTo(S, n) == UNION {[1..k -> S] : k \in 0..n}

FnHeader == <<Kw("Fn"), WS(1), Sym("f"), Op("ColonMark")>>

Corpus ==
    { \* fn add(a, b):\n    a + b
      <<Kw("Fn"), WS(1), Sym("add"), Op("LeftParentheses"), Sym("a"), Op("Comma"),
        WS(1), Sym("b"), Op("RightParentheses"), Op("ColonMark"), NL(4),
        Sym("a"), WS(1), Op("Addition"), WS(1), Sym("b")>>,
      \* devamet            fn f: kır          fn f: devamet
      <<Kw("Continue")>>,
      FnHeader \o <<WS(1), Kw("Break")>>,
      FnHeader \o <<WS(1), Kw("Continue")>>,
      \* fn f: döndür 1     fn f: döndür
      FnHeader \o <<WS(1), Kw("Return"), WS(1), IntTok(1)>>,
      FnHeader \o <<WS(1), Kw("Return")>>,
      \* fn f: a            fn f: a ==        fn f: a == (b
      FnHeader \o <<WS(1), Sym("a")>>,
      FnHeader \o <<WS(1), Sym("a"), WS(1), Op("Equal")>>,
      FnHeader \o <<WS(1), Sym("a"), Op("Equal"), Op("LeftParentheses"), Sym("b")>>,
      \* fn f:\n  a\n  b    fn f:\n  a\n  döndür a     fn f:\n\n  a
      FnHeader \o <<NL(2), Sym("a"), NL(2), Sym("b")>>,
      FnHeader \o <<NL(2), Sym("a"), NL(2), Kw("Return"), WS(1), Sym("a")>>,
      FnHeader \o <<NL(0), NL(2), Sym("a")>>,
      \* fn f:\na           fn f:\n  a\n b       fn f:\n  a\nb
      FnHeader \o <<NL(0), Sym("a")>>,
      FnHeader \o <<NL(2), Sym("a"), NL(1), Sym("b")>>,
      FnHeader \o <<NL(2), Sym("a"), NL(0), Sym("b")>>,
      \* blank lines before the function, well and badly indented
      <<NL(0), NL(0)>> \o FnHeader \o <<WS(1), Sym("a")>>,
      <<NL(0), NL(1)>> \o FnHeader \o <<WS(1), Sym("a")>>,
      \* broken headers
      <<Kw("Fn"), WS(1), Sym("f"), Op("LeftParentheses"), Sym("a"), Op("ColonMark"),
        Sym("a")>>,
      <<Kw("Fn"), WS(1), Sym("f"), Op("LeftParentheses"), IntTok(1),
        Op("RightParentheses"), Op("ColonMark"), Sym("a")>>,
      <<Kw("Fn"), WS(1), Sym("f"), WS(1), Sym("a")>>,
      \* sonsuz: kır        sonsuz:\n  erhan = 123\n  print(1)\n  kır
      <<Kw("Endless"), Op("ColonMark"), WS(1), Kw("Break")>>,
      <<Kw("Endless"), Op("ColonMark"), NL(2), Sym("erhan"), WS(1), Op("Assign"),
        WS(1), IntTok(123), NL(2), Sym("print"), Op("LeftParentheses"), IntTok(1),
        Op("RightParentheses"), NL(2), Kw("Break")>>,
      \* sonsuz:\n  fn f: kır
      <<Kw("Endless"), Op("ColonMark"), NL(2)>> \o FnHeader \o <<WS(1), Kw("Break")>>,
      \* erhan = 2020
      <<Sym("erhan"), WS(1), Op("Assign"), WS(1), IntTok(2020)>>,
      \* a == b < ;  a == b != c ;  f() == g() == h() ;  a or b and c
      <<Sym("a"), WS(1), Op("Equal"), WS(1), Sym("b"), WS(1), Op("LessThan")>>,
      <<Sym("a"), Op("Equal"), Sym("b"), Op("NotEqual"), Sym("c")>>,
      <<Sym("f"), Op("LeftParentheses"), Op("RightParentheses"), Op("Equal"),
        Sym("g"), Op("LeftParentheses"), Op("RightParentheses"), Op("Equal"),
        Sym("h"), Op("LeftParentheses"), Op("RightParentheses")>>,
      <<Sym("a"), WS(1), Op("Or"), WS(1), Sym("b"), WS(1), Op("And"), WS(1), Sym("c")>>,
      \* a.b.c ;  object.method(1)[0] ;  a. == ;  a[1
      <<Sym("a"), Op("Dot"), Sym("b"), Op("Dot"), Sym("c")>>,
      <<Sym("object"), Op("Dot"), Sym("method"), Op("LeftParentheses"), IntTok(1),
        Op("RightParentheses"), Op("SquareBracketStart"), IntTok(0),
        Op("SquareBracketEnd")>>,
      <<Sym("a"), Op("Dot"), Op("Equal")>>,
      <<Sym("a"), Op("SquareBracketStart"), IntTok(1)>>,
      \* a == b == c == d ;  a or b or c ;  a < b > c
      <<Sym("a"), Op("Equal"), Sym("b"), Op("Equal"), Sym("c"), Op("Equal"), Sym("d")>>,
      <<Sym("a"), Op("Or"), Sym("b"), Op("Or"), Sym("c")>>,
      <<Sym("a"), Op("LessThan"), Sym("b"), Op("GreaterThan"), Sym("c")>>,
      \* object.method(1) ;  a.b() ;  f() == g()
      <<Sym("object"), Op("Dot"), Sym("method"), Op("LeftParentheses"), IntTok(1),
        Op("RightParentheses")>>,
      <<Sym("a"), Op("Dot"), Sym("b"), Op("LeftParentheses"), Op("RightParentheses")>>,
      <<Sym("f"), Op("LeftParentheses"), Op("RightParentheses"), Op("Equal"),
        Sym("g"), Op("LeftParentheses"), Op("RightParentheses")>>,
      \* sonsuz:\n    erhan=123\n         a\nb
      <<Kw("Endless"), Op("ColonMark"), NL(4), Sym("erhan"), Op("Assign"), IntTok(123),
        NL(0)>>,
      <<Sym("a"), NL(0), Sym("b")>>,
      \* fn f:\n  kır      fn f:\n  a ==
      FnHeader \o <<NL(2), Kw("Break")>>,
      FnHeader \o <<NL(2), Sym("a"), WS(1), Op("Equal")>> }

Programs == SeqsUpTo(Alphabet, MaxLen) \cup Corpus

(***************************************************************************)
(* The parser as a state machine: one action per sub-parser call.          *)
(***************************************************************************)
NoCall ==
    [parser |-> "none", entry |-> [index |-> 0, indentation |-> 0, flags |-> NONE],
     kind |-> "none", ast |-> NoneAst, err |-> "", parsed_body |-> NoneAst]

Cursor == [index |-> index, indentation |-> indentation, flags |-> flags]

Returned(name, r) ==
    /\ index' = r.p.index
    /\ indentation' = r.p.indentation
    /\ flags' = r.p.flags
    /\ call' = [parser |-> name, entry |-> Cursor, kind |-> r.kind, ast |-> r.ast,
                err |-> r.err,
                parsed_body |-> IF "parsed_body" \in DOMAIN r
                                THEN r.parsed_body ELSE NoneAst]
    /\ UNCHANGED <<tokens, memory, constants, constant_size, temp_size,
                   temp_counter, variables, phase, hist, ret>>
    /\ UNCHANGED <<compiler_vars, context_vars, library_vars>>

Callable == call.kind # "panic"

ConsumeToken ==
    /\ Callable
    /\ index < Len(tokens)
    /\ index' = index + 1
    /\ call' = NoCall
    /\ UNCHANGED <<tokens, indentation, flags, memory, constants, constant_size,
                   temp_size, temp_counter, variables, phase, hist, ret>>
    /\ UNCHANGED <<compiler_vars, context_vars, library_vars>>

CallIndentationCheck == Callable /\ Returned("indentation_check", indentation_check(Cursor))
CallInIndication == Callable /\ Returned("in_indication", in_indication(Cursor))
CallFunctionDefination ==
    Callable /\ Returned("FunctionDefinationParser", FunctionDefinationParser(Cursor))
CallOr == Callable /\ Returned("OrParser", OrParser(Cursor))
CallAnd == Callable /\ Returned("AndParser", AndParser(Cursor))
CallEquality == Callable /\ Returned("EqualityParser", EqualityParser(Cursor))
CallControl == Callable /\ Returned("ControlParser", ControlParser(Cursor))
CallExpression == Callable /\ Returned("ExpressionParser", ExpressionParser(Cursor))
CallParse == Callable /\ Returned("SyntaxParser", SyntaxParser_parse(Cursor))

(***************************************************************************)
(* The bytecode compiler (InterpreterCompiler).  An element of opcodes is  *)
(* Opc(name), the byte of the VmOpCode variant `name`, or Byte(n), an      *)
(* operand byte.  The options are o = [opcodes, storages, modules]; every  *)
(* generate_* operator maps them to a result [kind, err, o], where o is    *)
(* what the call leaves in the options.                                    *)
(***************************************************************************)
None == -1
Opc(name) == [op |-> name]
Byte(n) == [u8 |-> n]
NoCompile == [ast |-> NoneAst, before |-> <<>>, kind |-> "none", err |-> "", calls |-> 0]

CompilerNew ==
    /\ opcodes = <<>>
    /\ storages = <<[constants |-> <<>>, variables |-> <<>>]>>
    /\ compiled = NoCompile

NoFound == [called |-> FALSE, name |-> "", module_path |-> <<>>,
            start_storage_index |-> 0, function |-> None]

ContextNew ==
    /\ functions = <<>>
    /\ context_storages = <<None>>
    /\ found = NoFound

ErrorNew == messages = <<>>

\* BasicInnerClass::default(): an empty config.
ClassNew == opcode_class = [name |-> "", properties |-> <<>>, added |-> {}, adds |-> 0]

ObjectNew == vm_object = [from |-> "none", handle |-> {}, word |-> {}]

\* No text is being scanned.
TextNew ==
    /\ tokinizer = [data |-> <<>>, iter |-> 0, iter_second |-> 0, index |-> 0, column |-> 0]
    /\ text_parser = [at |-> "idle", tag |-> "", ch |-> "", symbol |-> <<>>,
                      result |-> [kind |-> "none"], iterations |-> 0]

LibraryNew == ErrorNew /\ ClassNew /\ ObjectNew /\ TextNew

StorageNew ==
    /\ memory = <<>>
    /\ constants = <<>>
    /\ constant_size = 0
    /\ temp_size = 0
    /\ temp_counter = 0
    /\ variables = <<>>
    /\ phase = "building"
    /\ hist = [added |-> {}, adds |-> 0, sets |-> 0]
    /\ ret = [op |-> "new", value |-> 0, true_value |-> 0]

InitParser ==
    /\ tokens \in Programs
    /\ index = 0
    /\ indentation = 0
    /\ flags = NONE
    /\ call = NoCall
    /\ StorageNew
    /\ CompilerNew
    /\ modules = {}
    /\ ContextNew
    /\ LibraryNew

NextParser ==
    \/ ConsumeToken
    \/ CallIndentationCheck
    \/ CallInIndication
    \/ CallFunctionDefination
    \/ CallOr
    \/ CallAnd
    \/ CallEquality
    \/ CallControl
    \/ CallExpression
    \/ CallParse

SpecParser == InitParser /\ [][NextParser]_vars

(***************************************************************************)
(* DynamicStorage.  memory holds Primative values; the u8 fields and       *)
(* results are kept within 0 .. U8 - 1.  A `+` on u8 that overflows panics *)
(* in a build with overflow checks and wraps in a build without them; an   *)
(* `as u8` conversion truncates in both.                                   *)
(***************************************************************************)
Empty == "Empty"
ConstantValues == {"Number(1)", "Number(2)"}
ObjectValues == {"Number(9)"}
VariableNames == {"a", "b"}
TempSizes == {1, U8 - 1}

\* The outcomes of a u8 sum whose mathematical value is n.
U8Sum(n) ==
    IF n < U8 THEN {[panic |-> FALSE, value |-> n]}
    ELSE {[panic |-> TRUE, value |-> n], [panic |-> FALSE, value |-> AsU8(n)]}

Padding(n) == [i \in 1..n |-> Empty]

get_constant_size == constant_size
get_variable_size == AsU8(Cardinality(DOMAIN variables))
get_temp_size == temp_size

get_variable_location(name) ==
    IF name \in DOMAIN variables THEN variables[name] ELSE None

\* iter().position(): the first index (from 0) of a cell equal to value.
position_in(cells, value) ==
    IF \E i \in 1..Len(cells) : cells[i] = value
    THEN (CHOOSE i \in 1..Len(cells) :
              /\ cells[i] = value
              /\ \A j \in 1..(i - 1) : cells[j] # value) - 1
    ELSE None

position(value) == position_in(memory, value)

get_constant_location(value) ==
    IF position(value) = None THEN None ELSE AsU8(position(value))

Returns(op, value, true_value) ==
    [op |-> op, value |-> value, true_value |-> true_value]

Usable == phase # "panicked"

AddConstant(value) ==
    /\ Usable
    /\ hist.adds < MaxConstants
    /\ memory' = IF \E i \in 1..Len(constants) : constants[i] = value
                 THEN memory ELSE Append(memory, value)
    /\ phase' = "building"
    /\ hist' = [hist EXCEPT !.added = @ \cup {value}, !.adds = @ + 1]
    /\ ret' = Returns("add_constant", None, None)
    /\ UNCHANGED <<constants, constant_size, temp_size, temp_counter, variables>>
    /\ UNCHANGED <<parser_vars, compiler_vars, context_vars, library_vars>>

AddVariable(name) ==
    /\ Usable
    /\ memory' = IF name \in DOMAIN variables THEN memory ELSE Append(memory, Empty)
    /\ variables' = IF name \in DOMAIN variables THEN variables
                    ELSE [n \in DOMAIN variables \cup {name} |->
                             IF n = name THEN 0 ELSE variables[n]]
    /\ phase' = IF name \in DOMAIN variables THEN phase ELSE "building"
    /\ ret' = Returns("add_variable", variables'[name], variables'[name])
    /\ UNCHANGED <<constants, constant_size, temp_size, temp_counter, hist>>
    /\ UNCHANGED <<parser_vars, compiler_vars, context_vars, library_vars>>

SetTempSize(value) ==
    /\ Usable
    /\ temp_size' = value
    /\ phase' = IF value = temp_size THEN phase ELSE "building"
    /\ ret' = Returns("set_temp_size", None, None)
    /\ UNCHANGED <<memory, constants, constant_size, temp_counter, variables, hist>>
    /\ UNCHANGED <<parser_vars, compiler_vars, context_vars, library_vars>>

Build ==
    /\ Usable
    /\ constant_size' = AsU8(Len(constants))
    /\ \E r \in U8Sum(AsU8(Len(constants)) + get_variable_size + get_temp_size) :
          /\ phase' = IF r.panic THEN "panicked" ELSE "built"
          /\ memory' = IF ~r.panic /\ r.value > Len(memory)
                       THEN memory \o Padding(r.value - Len(memory)) ELSE memory
          /\ ret' = Returns("build", IF r.panic THEN None ELSE r.value,
                            AsU8(Len(constants)) + get_variable_size + get_temp_size)
    /\ UNCHANGED <<constants, temp_size, temp_counter, variables, hist>>
    /\ UNCHANGED <<parser_vars, compiler_vars, context_vars, library_vars>>

GetFreeTempSlot ==
    /\ Usable
    /\ temp_counter < MaxTemps
    /\ \E c \in U8Sum(temp_counter + 1),
          s \in U8Sum(get_constant_size + get_variable_size + temp_counter) :
          /\ temp_counter' = IF c.panic THEN temp_counter ELSE c.value
          /\ phase' = IF c.panic \/ s.panic THEN "panicked" ELSE phase
          /\ ret' = Returns("get_free_temp_slot",
                            IF c.panic \/ s.panic THEN None ELSE s.value,
                            get_constant_size + get_variable_size + temp_counter)
    /\ UNCHANGED <<memory, constants, constant_size, temp_size, variables, hist>>
    /\ UNCHANGED <<parser_vars, compiler_vars, context_vars, library_vars>>

ResetTempCounter ==
    /\ Usable
    /\ temp_counter' = 0
    /\ ret' = Returns("reset_temp_counter", None, None)
    /\ UNCHANGED <<memory, constants, constant_size, temp_size, variables, phase, hist>>
    /\ UNCHANGED <<parser_vars, compiler_vars, context_vars, library_vars>>

\* set_variable_value, add_variable included when the name is new; the
\* write memory[location] panics when location is out of bounds.
SetVariableValue(name, object) ==
    /\ Usable
    /\ hist.sets < MaxSets
    /\ variables' = IF name \in DOMAIN variables THEN variables
                    ELSE [n \in DOMAIN variables \cup {name} |->
                             IF n = name THEN 0 ELSE variables[n]]
    /\ memory' = [(IF name \in DOMAIN variables THEN memory ELSE Append(memory, Empty))
                     EXCEPT ![variables'[name] + 1] = object]
    /\ phase' = IF name \in DOMAIN variables THEN phase ELSE "building"
    /\ hist' = [hist EXCEPT !.sets = @ + 1]
    /\ ret' = Returns("set_variable_value", None, None)
    /\ UNCHANGED <<constants, constant_size, temp_size, temp_counter>>
    /\ UNCHANGED <<parser_vars, compiler_vars, context_vars, library_vars>>

GetConstantLocation(value) ==
    /\ Usable
    /\ ret' = Returns("get_constant_location", get_constant_location(value),
                      position(value))
    /\ UNCHANGED <<memory, constants, constant_size, temp_size, temp_counter,
                   variables, phase, hist>>
    /\ UNCHANGED <<parser_vars, compiler_vars, context_vars, library_vars>>

GetVariableLocation(name) ==
    /\ Usable
    /\ ret' = Returns("get_variable_location", get_variable_location(name),
                      get_variable_location(name))
    /\ UNCHANGED <<memory, constants, constant_size, temp_size, temp_counter,
                   variables, phase, hist>>
    /\ UNCHANGED <<parser_vars, compiler_vars, context_vars, library_vars>>

InitStorage ==
    /\ tokens = <<>>
    /\ index = 0
    /\ indentation = 0
    /\ flags = NONE
    /\ call = NoCall
    /\ StorageNew
    /\ CompilerNew
    /\ modules = {}
    /\ ContextNew
    /\ LibraryNew

NextStorage ==
    \/ \E value \in ConstantValues : AddConstant(value)
    \/ \E name \in VariableNames : AddVariable(name)
    \/ \E value \in TempSizes : SetTempSize(value)
    \/ Build
    \/ GetFreeTempSlot
    \/ ResetTempCounter
    \/ \E name \in VariableNames, object \in ObjectValues : SetVariableValue(name, object)
    \/ \E value \in ConstantValues : GetConstantLocation(value)
    \/ \E name \in VariableNames : GetVariableLocation(name)

SpecStorage == InitStorage /\ [][NextStorage]_vars

(***************************************************************************)
(* StaticStorage, the storage builder and the module collection, as the    *)
(* compiler uses them: constants and variables are kept in the order they  *)
(* were registered, without duplicates, and the slots are laid out         *)
(* [constants | variables].                                                *)
(***************************************************************************)
add_unique(cells, value) ==
    IF position_in(cells, value) = None THEN Append(cells, value) ELSE cells

static_get_constant_location(storage, value) ==
    IF position_in(storage.constants, value) = None THEN None
    ELSE AsU8(position_in(storage.constants, value))

static_get_variable_location(storage, name) ==
    IF position_in(storage.variables, name) = None THEN None
    ELSE AsU8(Len(storage.constants) + position_in(storage.variables, name))

FuncCall(names, arguments) ==
    [type |-> "FuncCall", names |-> names, arguments |-> arguments]
PrefixUnary(operator, expression) ==
    [type |-> "PrefixUnary", operator |-> operator, expression |-> expression]
SuffixUnary(operator, expression) ==
    [type |-> "SuffixUnary", operator |-> operator, expression |-> expression]
FuncNativeCall(function) == [prim |-> "FuncNativeCall", names |-> function]

\* ModuleCollection::find_method: Some(function) for the function registered
\* under names, or None.
find_method(collection, names) ==
    IF names \in collection THEN [some |-> TRUE, function |-> names]
    ELSE [some |-> FALSE]

RECURSIVE prepare_variable_store(_, _)
RECURSIVE prepare_list(_, _, _, _)
\* The walk over asts[lo..hi], in order, on the storage at index 0.
prepare_list(asts, lo, hi, o) ==
    IF lo > hi \/ Len(o.storages) = 0 THEN o
    ELSE IF lo = hi THEN prepare_variable_store(asts[lo], o)
    ELSE prepare_list(asts, ((lo + hi) \div 2) + 1, hi,
                      prepare_list(asts, lo, (lo + hi) \div 2, o))

\* StorageBuilder::prepare_variable_store: every literal becomes a constant,
\* every assignment target a variable, every resolvable callee a
\* FuncNativeCall constant.
prepare_variable_store(ast, o) ==
    CASE ast.type = "Primative" ->
            [o EXCEPT !.storages[1].constants = add_unique(@, ast)]
      [] ast.type = "Assignment" ->
            prepare_variable_store(ast.expression,
                [o EXCEPT !.storages[1].variables = add_unique(@, ast.variable)])
      [] ast.type \in {"Binary", "Control"} ->
            prepare_list(<<ast.left, ast.right>>, 1, 2, o)
      [] ast.type \in {"PrefixUnary", "SuffixUnary"} ->
            prepare_variable_store(ast.expression, o)
      [] ast.type = "Block" -> prepare_list(ast.items, 1, Len(ast.items), o)
      [] ast.type = "FuncCall" ->
            IF ~find_method(o.modules, ast.names).some
            THEN prepare_list(ast.arguments, 1, Len(ast.arguments), o)
            ELSE [prepare_list(ast.arguments, 1, Len(ast.arguments), o)
                    EXCEPT !.storages[1].constants =
                        add_unique(@, FuncNativeCall(
                            find_method(o.modules, ast.names).function))]
      [] OTHER -> o

(***************************************************************************)
(* InterpreterCompiler.  compile passes storage_index 0, the first         *)
(* element of o.storages.                                                  *)
(***************************************************************************)
COk(o) == [kind |-> "ok", err |-> "", o |-> o]
CErr(err, o) == [kind |-> "err", err |-> err, o |-> o]
push(o, byte) == [o EXCEPT !.opcodes = Append(@, byte)]

\* `?` on the result r of the calls before, then options.opcodes.push(opcode).
emit(r, opcode) == IF r.kind # "ok" THEN r ELSE COk(push(r.o, opcode))

RECURSIVE generate_opcode(_, _)
RECURSIVE generate_list(_, _, _, _)

generate_rest_KeepGoing(asts, lo, hi, r) ==
    IF r.kind # "ok"
    THEN [generate_list(asts, lo, hi, r.o) EXCEPT !.kind = r.kind, !.err = r.err]
    ELSE generate_list(asts, lo, hi, r.o)

\* `?` on the result r of the calls before, then the calls for asts[lo..hi].
generate_rest(asts, lo, hi, r) ==
    IF r.kind # "ok" THEN r ELSE generate_list(asts, lo, hi, r.o)

\* for ast in asts { generate_opcode(ast)?; } over asts[lo..hi].
generate_list(asts, lo, hi, o) ==
    IF lo > hi THEN COk(o)
    ELSE IF lo = hi THEN generate_opcode(asts[lo], o)
    ELSE generate_rest(asts, ((lo + hi) \div 2) + 1, hi,
                       generate_list(asts, lo, (lo + hi) \div 2, o))

generate_primative(primative, o) ==
    IF static_get_constant_location(o.storages[1], primative) = None
    THEN CErr("Value not found in storage", o)
    ELSE COk(push(push(o, Opc("Load")),
                  Byte(static_get_constant_location(o.storages[1], primative))))

\* The part of generate_func_call after the argument loop, whose result is r.
func_call_emit(names, arguments, r) ==
    IF r.kind # "ok" THEN r
    ELSE IF ~find_method(r.o.modules, names).some
    THEN CErr("Function not found", r.o)
    ELSE IF static_get_constant_location(r.o.storages[1],
                FuncNativeCall(find_method(r.o.modules, names).function)) = None
    THEN CErr("Function not found", r.o)
    ELSE COk(push(push(push(r.o, Opc("NativeCall")),
                 Byte(static_get_constant_location(r.o.storages[1],
                          FuncNativeCall(find_method(r.o.modules, names).function)))),
                 Byte(AsU8(Len(arguments)))))

generate_func_call(names, arguments, o) ==
    func_call_emit(names, arguments, generate_list(arguments, 1, Len(arguments), o))

generate_symbol(variable, o) ==
    IF static_get_variable_location(o.storages[1], variable) = None
    THEN CErr("Variable not found in storage", o)
    ELSE COk(push(push(o, Opc("Load")),
                  Byte(static_get_variable_location(o.storages[1], variable))))

generate_control(left_ast, operator, right_ast, o) ==
    emit(generate_rest(<<right_ast>>, 1, 1, generate_opcode(left_ast, o)),
         IF operator \in {"Or", "And", "Equal", "NotEqual", "GreaterThan", "LessThan",
                          "GreaterEqualThan", "LessEqualThan"}
         THEN Opc(operator) ELSE Opc("None"))

generate_assignment(variable, operator, expression_ast, o) ==
    COk(push([o EXCEPT !.storages[1].variables = add_unique(@, variable)],
             CASE operator = "Assign" -> Opc("Store")
               [] operator \in {"AssignAddition", "AssignDivision",
                                "AssignMultiplication", "AssignSubtraction"} ->
                      Opc(operator)
               [] OTHER -> Opc("None")))

generate_binary(left_ast, operator, right_ast, o) ==
    emit(generate_rest(<<right_ast>>, 1, 1, generate_opcode(left_ast, o)),
         CASE operator = "Addition" -> Opc("Addition")
           [] operator = "Subtraction" -> Opc("Subraction")
           [] operator = "Multiplication" -> Opc("Multiply")
           [] operator = "Division" -> Opc("Division")
           [] OTHER -> Opc("None"))

\* The part of the unary generators after the operand, whose result is r.
unary_emit(operator, operators, r) ==
    IF r.kind # "ok" THEN r
    ELSE IF operator \notin operators THEN CErr("Unary operator not found", r.o)
    ELSE COk(push(r.o, Opc(IF operator = "Deccrement" THEN "Decrement" ELSE operator)))

generate_prefix_unary(operator, expression, o) ==
    unary_emit(operator, {"Increment", "Deccrement", "Not"}, generate_opcode(expression, o))

generate_suffix_unary(operator, expression, o) ==
    unary_emit(operator, {"Increment", "Deccrement"}, generate_opcode(expression, o))

generate_block(asts, o) == generate_list(asts, 1, Len(asts), o)

generate_opcode(ast, o) ==
    CASE ast.type = "Assignment" ->
            generate_assignment(ast.variable, ast.operator, ast.expression, o)
      [] ast.type = "Symbol" -> generate_symbol(ast.name, o)
      [] ast.type = "Control" -> generate_control(ast.left, ast.operator, ast.right, o)
      [] ast.type = "Binary" -> generate_binary(ast.left, ast.operator, ast.right, o)
      [] ast.type = "Block" -> generate_block(ast.items, o)
      [] ast.type = "Primative" -> generate_primative(ast, o)
      [] ast.type = "FuncCall" -> generate_func_call(ast.names, ast.arguments, o)
      [] ast.type = "PrefixUnary" -> generate_prefix_unary(ast.operator, ast.expression, o)
      [] ast.type = "SuffixUnary" -> generate_suffix_unary(ast.operator, ast.expression, o)
      [] OTHER -> CErr("Not implemented", o)

compile(ast, o) == generate_opcode(ast, prepare_variable_store(ast, o))

(***************************************************************************)
(* The compiler as a state machine: one action is one call of compile on   *)
(* the options object.                                                     *)
(***************************************************************************)
MaxCompiles == 2
ManyArguments == [i \in 1..U8 |-> NumberAst(1)]
print_names == <<"print">>

CompilerAsts ==
    {NumberAst(1), SymbolAst("erhan"), NoneAst,
     AssignmentAst("erhan", "Assign", NumberAst(2020)),
     AssignmentAst("erhan", "AssignAddition", NumberAst(1)),
     AssignmentAst("erhan", "Assign",
                   BinaryAst(NumberAst(1), "Addition",
                             BinaryAst(NumberAst(2), "Multiplication", NumberAst(3)))),
     BinaryAst(NumberAst(1), "Addition",
               BinaryAst(NumberAst(2), "Multiplication", NumberAst(3))),
     BinaryAst(NumberAst(1), "Addition", NumberAst(2)),
     BinaryAst(NumberAst(1), "Subtraction", NumberAst(2)),
     BinaryAst(NumberAst(1), "Division", NumberAst(2)),
     BinaryAst(NumberAst(1), "Modulo", NumberAst(2)),
     BinaryAst(SymbolAst("x"), "Addition", NumberAst(2)),
     ControlAst(NumberAst(1), "Equal", NumberAst(2)),
     ControlAst(NumberAst(1), "LessThan", NumberAst(2)),
     ControlAst(NumberAst(1), "And", NumberAst(2)),
     ControlAst(NumberAst(1), "Or", FuncCall(print_names, <<NumberAst(2)>>)),
     ControlAst(NumberAst(1), "And", FuncCall(print_names, <<NumberAst(2)>>)),
     PrefixUnary("Not", NumberAst(1)), PrefixUnary("Addition", NumberAst(1)),
     SuffixUnary("Increment", NumberAst(1)), SuffixUnary("Not", NumberAst(1)),
     FuncCall(print_names, <<>>), FuncCall(print_names, <<NumberAst(1)>>),
     FuncCall(print_names, <<NumberAst(1), NumberAst(2)>>),
     FuncCall(print_names, <<NumberAst(1), SymbolAst("x"), NumberAst(2)>>),
     FuncCall(print_names, <<FuncCall(print_names, <<NumberAst(1)>>), NumberAst(2)>>),
     FuncCall(<<"yaz">>, <<NumberAst(1)>>),
     FuncCall(print_names, ManyArguments),
     BlockAst(<<NumberAst(1), NumberAst(2), NumberAst(3)>>),
     BlockAst(<<AssignmentAst("erhan", "Assign", NumberAst(2020)), SymbolAst("erhan")>>),
     BlockAst(<<SymbolAst("x"), NumberAst(1)>>),
     BlockAst(<<NumberAst(1), NoneAst, NumberAst(2)>>),
     BlockAst(<<BinaryAst(NumberAst(1), "Addition", SymbolAst("x")), NumberAst(2)>>),
     BlockAst(<<NumberAst(1),
                BlockAst(<<NumberAst(2), FuncCall(<<"yaz">>, <<NumberAst(3)>>), NumberAst(1)>>),
                NumberAst(3)>>)}

ModuleCollections == {{}, {print_names}}

Options == [opcodes |-> opcodes, storages |-> storages, modules |-> modules]

Compile(ast) ==
    /\ compiled.calls < MaxCompiles
    /\ opcodes' = compile(ast, Options).o.opcodes
    /\ storages' = compile(ast, Options).o.storages
    /\ compiled' = [ast |-> ast, before |-> opcodes,
                    kind |-> compile(ast, Options).kind,
                    err |-> compile(ast, Options).err,
                    calls |-> compiled.calls + 1]
    /\ UNCHANGED <<modules, parser_vars, storage_vars, context_vars, library_vars>>

InitCompiler ==
    /\ tokens = <<>>
    /\ index = 0
    /\ indentation = 0
    /\ flags = NONE
    /\ call = NoCall
    /\ StorageNew
    /\ CompilerNew
    /\ modules \in ModuleCollections
    /\ ContextNew
    /\ LibraryNew

NextCompiler == \E ast \in CompilerAsts : Compile(ast)

SpecCompiler == InitCompiler /\ [][NextCompiler]_vars

(***************************************************************************)
(* KaramelCompilerContext: the function registry and the storages with     *)
(* their parent links.  context_storages[i + 1] is the parent location of  *)
(* the storage at index i, or None.  found.function is the location in     *)
(* functions of what the last get_function call returned (counted from 1), *)
(* or None.                                                                *)
(***************************************************************************)
MaxFunctions == 2
MaxStorages == 3

FunctionReference(name, module_path, callback, defined_storage_index) ==
    [name |-> name, module_path |-> module_path, callback |-> callback,
     defined_storage_index |-> defined_storage_index]

function_matches_AnyStorage(function_reference, name, module_path, search_storage) ==
    function_reference.module_path = module_path /\ function_reference.name = name

\* The closure given to position() in get_function.
function_matches(function_reference, name, module_path, search_storage) ==
    IF function_reference.callback = "Native"
    THEN function_reference.module_path = module_path /\ function_reference.name = name
    ELSE /\ function_reference.name = name
         /\ function_reference.module_path = module_path
         /\ function_reference.defined_storage_index = search_storage

RECURSIVE get_function(_, _, _)
\* One turn of the loop of get_function with the current search_storage; the
\* call starts it with start_storage_index.
get_function(name, module_path, search_storage) ==
    IF \E l \in 1..Len(functions) :
           function_matches(functions[l], name, module_path, search_storage)
    THEN CHOOSE l \in 1..Len(functions) :
           /\ function_matches(functions[l], name, module_path, search_storage)
           /\ \A k \in 1..(l - 1) :
                  ~function_matches(functions[k], name, module_path, search_storage)
    ELSE IF context_storages[search_storage + 1] = None THEN None
    ELSE get_function(name, module_path, context_storages[search_storage + 1])

FunctionNames == {"f", "g"}
ModulePaths == {<<>>, <<"m">>}
StorageIndexes == 0..(Len(context_storages) - 1)

AddFunction(information) ==
    /\ Len(functions) < MaxFunctions
    /\ functions' = Append(functions, information)
    /\ found' = NoFound
    /\ UNCHANGED <<context_storages, parser_vars, storage_vars, compiler_vars, library_vars>>

\* The storage builder opens a storage for a function body nested in the
\* storage at parent.
AddStorage(parent) ==
    /\ Len(context_storages) < MaxStorages
    /\ context_storages' = Append(context_storages, parent)
    /\ found' = NoFound
    /\ UNCHANGED <<functions, parser_vars, storage_vars, compiler_vars, library_vars>>

GetFunction(name, module_path, start_storage_index) ==
    /\ found' = [called |-> TRUE, name |-> name, module_path |-> module_path,
                 start_storage_index |-> start_storage_index,
                 function |-> get_function(name, module_path, start_storage_index)]
    /\ UNCHANGED <<functions, context_storages, parser_vars, storage_vars, compiler_vars,
                   library_vars>>

InitContext ==
    /\ tokens = <<>>
    /\ index = 0
    /\ indentation = 0
    /\ flags = NONE
    /\ call = NoCall
    /\ StorageNew
    /\ CompilerNew
    /\ modules = {}
    /\ ContextNew
    /\ LibraryNew

NextContext ==
    \/ \E name \in FunctionNames, s \in StorageIndexes :
          AddFunction(FunctionReference(name, <<>>, "Opcode", s))
    \/ \E name \in FunctionNames : AddFunction(FunctionReference(name, <<>>, "Native", 0))
    \/ \E parent \in StorageIndexes : AddStorage(parent)
    \/ \E name \in FunctionNames, module_path \in ModulePaths, s \in StorageIndexes :
          GetFunction(name, module_path, s)

SpecContext == InitContext /\ [][NextContext]_vars

(***************************************************************************)
(* BramaError and as_text.  A text is the sequence of the pieces format!   *)
(* writes: "(#", the decimal digits of the code, ") " and the message.     *)
(***************************************************************************)
MaxMessages == 2

\* The variants in the order of their declaration.
BramaError ==
    <<"SyntaxError", "InvalidExpression", "MoreThan1ArgumentPassed",
      "RightParanthesesMissing", "AssertFailed", "NumberNotParsed",
      "MissingStringDeliminator", "CharNotValid", "RightSideOfExpressionNotFound",
      "ReturnMustBeUsedInFunction", "FunctionCallSyntaxNotValid",
      "FunctionNameNotDefined", "ArgumentMustBeText", "IfConditionBodyNotFound",
      "ParenthesesNotClosed", "InvalidUnaryOperation", "UnaryWorksWithNumber",
      "ArgumentNotFound", "MultipleElseUsageNotValid", "BreakAndContinueBelongToLoops",
      "FunctionConditionBodyNotFound", "ColonMarkMissing", "ElseIsUsed",
      "IndentationIssue", "DictNotClosed", "ArrayNotClosed", "InvalidListItem",
      "DictionaryKeyNotValid", "DictionaryValueNotValid", "CommentNotFinished",
      "WhileStatementNotValid">>

discriminant_From226(error) == 226 + position_in(BramaError, error)

\* `SyntaxError = 100`, every later variant one more than the one before.
discriminant(error) == 100 + position_in(BramaError, error)

\* The message of each variant (in ASCII).
message ==
    [SyntaxError |-> "Sozdizimi hatasi",
     InvalidExpression |-> "Gecersiz ifade",
     MoreThan1ArgumentPassed |-> "Birden fazla degisken kullanilamaz",
     RightParanthesesMissing |-> "Sag parantaz eksik",
     AssertFailed |-> "Dogrulanamadi",
     NumberNotParsed |-> "Sayi ayristirilamadi",
     MissingStringDeliminator |-> "Yazi sonlandiricisi bulunamadi",
     CharNotValid |-> "Karakter gecerli degil",
     RightSideOfExpressionNotFound |-> "Ifadenin sag tarafi bulunamadi",
     ReturnMustBeUsedInFunction |-> "Dondur komutu fonksiyon icinde kullanilmalidir",
     FunctionCallSyntaxNotValid |-> "Fonksiyon cagirma sozdizimi gecerli degil",
     FunctionNameNotDefined |-> "Fonksiyon adi tanimlanmamis",
     ArgumentMustBeText |-> "Degisken yazi olmalidir",
     IfConditionBodyNotFound |-> "Kosul govdesi eksik",
     ParenthesesNotClosed |-> "Parantez kapatilmamis",
     InvalidUnaryOperation |-> "Gecersiz tekli islem",
     UnaryWorksWithNumber |-> "Tekli numara ile calismaktadir",
     ArgumentNotFound |-> "Parametre bulunamadi",
     MultipleElseUsageNotValid |-> "Birden fazla yada ifadesi kullanilamaz",
     BreakAndContinueBelongToLoops |->
         "'kir' ve 'devamet' ifadeleri dongu icinde kullanilabilir",
     FunctionConditionBodyNotFound |-> "Fonksiyon ici kodlar bulunamadi",
     ColonMarkMissing |-> "':' eksik",
     ElseIsUsed |-> "'yada' zaten kullanildi",
     IndentationIssue |-> "Girinti sorunu",
     DictNotClosed |-> "Sozluk duzgun kapatilmamis",
     ArrayNotClosed |-> "Dizi duzgun kapatilmadi",
     InvalidListItem |-> "Dizi elemani gecersiz",
     DictionaryKeyNotValid |-> "Sozluk anahtari gecersiz",
     DictionaryValueNotValid |-> "Sozluk geceri gecersiz",
     CommentNotFinished |-> "Yorum bilgisi duzgun kapatilmadi",
     WhileStatementNotValid |-> "Dongu duzgun tanimlanmamis"]

RECURSIVE Decimal(_)
\* What `{}` writes for an unsigned number: its decimal digits.
Decimal(n) ==
    IF n < 10 THEN <<<<"0", "1", "2", "3", "4", "5", "6", "7", "8", "9">>[n + 1]>>
    ELSE Decimal(n \div 10) \o Decimal(n % 10)

as_text(error) ==
    <<"(#">> \o Decimal(AsU8(discriminant(error))) \o <<") ", message[error]>>

AsText(error) ==
    /\ Len(messages) < MaxMessages
    /\ messages' = Append(messages, [error |-> error, text |-> as_text(error)])
    /\ UNCHANGED <<opcode_class, vm_object, tokinizer, text_parser>>
    /\ UNCHANGED <<parser_vars, storage_vars, compiler_vars, context_vars>>

InitError == InitContext

NextError == \E i \in 1..Len(BramaError) : AsText(BramaError[i])

SpecError == InitError /\ [][NextError]_vars

(***************************************************************************)
(* BasicInnerClass.  `properties` is the HashMap of the class config, a    *)
(* function from the names it holds; `added` and `adds` record the names   *)
(* and the number of the add_property and add_method calls made so far.    *)
(***************************************************************************)
MaxAdds == 3

PropertyNames == {"name", "length", "push"}
PropertyValues == {"Number(1)", "Text(erhan)"}
NativeCalls == {"push", "pop"}

insert(map, key, value) ==
    [k \in DOMAIN map \cup {key} |-> IF k = key THEN value ELSE map[k]]

has_element_FieldsOnly(class, field) ==
    field \in DOMAIN class.properties /\ class.properties[field].kind = "Field"

has_element(class, field) == field \in DOMAIN class.properties

get_element(class, field) ==
    IF field \in DOMAIN class.properties
    THEN [some |-> TRUE, data |-> class.properties[field]]
    ELSE [some |-> FALSE]

property_count(class) == Cardinality(DOMAIN class.properties)

add_method(class, name, function) ==
    [class EXCEPT !.properties =
        insert(@, name, [kind |-> "Function", function |-> function, name |-> name])]

add_property(class, name, property) ==
    [class EXCEPT !.properties = insert(@, name, [kind |-> "Field", value |-> property])]

set_name(class, name) ==
    IF Len(class.name) = 0 THEN [class EXCEPT !.name = name] ELSE class

ClassUnchanged ==
    /\ UNCHANGED <<messages, vm_object, tokinizer, text_parser>>
    /\ UNCHANGED <<parser_vars, storage_vars, compiler_vars, context_vars>>

AddMethod(name, function) ==
    /\ opcode_class.adds < MaxAdds
    /\ opcode_class' = [add_method(opcode_class, name, function) EXCEPT
                            !.added = @ \cup {name}, !.adds = @ + 1]
    /\ ClassUnchanged

AddProperty(name, property) ==
    /\ opcode_class.adds < MaxAdds
    /\ opcode_class' = [add_property(opcode_class, name, property) EXCEPT
                            !.added = @ \cup {name}, !.adds = @ + 1]
    /\ ClassUnchanged

SetName(name) ==
    /\ opcode_class' = set_name(opcode_class, name)
    /\ opcode_class' # opcode_class
    /\ ClassUnchanged

InitClass == InitContext

NextClass ==
    \/ \E name \in PropertyNames, function \in NativeCalls : AddMethod(name, function)
    \/ \E name \in PropertyNames, property \in PropertyValues : AddProperty(name, property)
    \/ \E name \in {"test_class", "liste"} : SetName(name)

SpecClass == InitClass /\ [][NextClass]_vars

(***************************************************************************)
(* The NaN-boxed word of a VmObject.  A u64 is the set of the positions of *)
(* its one bits (0 is the lowest), written as four 16-bit groups from the  *)
(* highest to the lowest, the way the constants are written in the source. *)
(***************************************************************************)
Bits(group, shift) == {shift + i : i \in {j \in 0..15 : (group \div 2^j) % 2 = 1}}

Word(g3, g2, g1, g0) == Bits(g3, 48) \cup Bits(g2, 32) \cup Bits(g1, 16) \cup Bits(g0, 0)

WordOr(a, b) == a \cup b
WordAnd(a, b) == a \cap b

TAG_NULL == 0
TAG_FALSE == 1
TAG_TRUE == 2

\* 0x7ffc_0000_0000_0000
QNAN == Word(32764, 0, 0, 0)
\* 0x8000_0000_0000_0000
POINTER_FLAG == Word(32768, 0, 0, 0)
POINTER_MASK_Wide == Word(7, 65535, 65535, 65535)
\* 0x0000_FFFF_FFFF_FFFF
POINTER_MASK == Word(0, 65535, 65535, 65535)
FALSE_FLAG == WordOr(QNAN, Word(0, 0, 0, TAG_FALSE))
TRUE_FLAG == WordOr(QNAN, Word(0, 0, 0, TAG_TRUE))
EMPTY_FLAG == WordOr(QNAN, Word(0, 0, 0, TAG_NULL))

\* The word of a pointer to the handle h.
pointer_word(h) == WordOr(WordOr(QNAN, POINTER_FLAG), WordAnd(h, POINTER_MASK))

HandleGroups == {0, 1, 2, 32768, 65535}
Handles == {Word(g3, g2, g1, g0) : g3 \in {0, 1}, g2, g1, g0 \in HandleGroups}

ObjectUnchanged ==
    /\ UNCHANGED <<messages, opcode_class, tokinizer, text_parser>>
    /\ UNCHANGED <<parser_vars, storage_vars, compiler_vars, context_vars>>

EncodeTag(flag) ==
    /\ vm_object' = [from |-> "tag", handle |-> {}, word |-> flag]
    /\ ObjectUnchanged

EncodePointer(h) ==
    /\ vm_object' = [from |-> "pointer", handle |-> h, word |-> pointer_word(h)]
    /\ ObjectUnchanged

InitObject == InitContext

NextObject ==
    \/ \E flag \in {EMPTY_FLAG, FALSE_FLAG, TRUE_FLAG} : EncodeTag(flag)
    \/ \E h \in Handles : EncodePointer(h)

SpecObject == InitObject /\ [][NextObject]_vars

(***************************************************************************)
(* TextParser::parse over a Tokinizer.  `iter` and `iter_second` are the   *)
(* numbers of characters the two iterators have passed; the characters are *)
(* one-byte ones.  The parse is taken in steps: the entry, one step for    *)
(* each turn of the loop, and the test after the loop.                     *)
(***************************************************************************)
MaxText == 5

NUL == "NUL"
Backslash == "\\"
Tags == {"\"", "'"}
Chars == Tags \cup {Backslash, "a"}

is_end(t) == t.iter >= Len(t.data)

get_char(t) == IF t.iter < Len(t.data) THEN t.data[t.iter + 1] ELSE NUL

get_next_char(t) == IF t.iter_second < Len(t.data) THEN t.data[t.iter_second + 1] ELSE NUL

\* An iterator that is at the end stays there.
next(passed, data) == IF passed < Len(data) THEN passed + 1 ELSE passed

increase_index(t) ==
    [t EXCEPT !.index = @ + 1,
              !.column = @ + 1,
              !.iter = next(@, t.data),
              !.iter_second = next(@, t.data)]

\* A tokenizer over `data`, the second iterator one character ahead.
tokinizer_new(data) ==
    [data |-> data, iter |-> 0, iter_second |-> next(0, data), index |-> 0, column |-> 0]

parse_loop_NoEscape(t, p) ==
    LET ch == get_char(t) IN
    IF ch = p.tag
    THEN [tokinizer |-> increase_index(t),
          parser |-> [p EXCEPT !.ch = ch, !.at = "after", !.iterations = @ + 1]]
    ELSE [tokinizer |-> increase_index(t),
          parser |-> [p EXCEPT !.ch = ch, !.symbol = Append(@, ch), !.iterations = @ + 1]]

\* One turn of the loop, entered with !is_end().
parse_loop(t, p) ==
    LET ch == get_char(t)
        ch_next == get_next_char(t)
    IN  IF ch = Backslash /\ ch_next = p.tag
        THEN [tokinizer |-> increase_index(increase_index(t)),
              parser |-> [p EXCEPT !.ch = ch, !.symbol = Append(@, ch),
                                   !.iterations = @ + 1]]
        ELSE IF ch = p.tag
        THEN [tokinizer |-> increase_index(t),
              parser |-> [p EXCEPT !.ch = ch, !.at = "after", !.iterations = @ + 1]]
        ELSE [tokinizer |-> increase_index(t),
              parser |-> [p EXCEPT !.ch = ch, !.symbol = Append(@, ch),
                                   !.iterations = @ + 1]]

\* The test after the loop.
parse_return(t, p) ==
    IF p.ch # p.tag
    THEN [kind |-> "Err", message |-> "Missing string deliminator", column |-> t.column]
    ELSE [kind |-> "Text", symbol |-> p.symbol]

TextUnchanged ==
    /\ UNCHANGED <<messages, opcode_class, vm_object>>
    /\ UNCHANGED <<parser_vars, storage_vars, compiler_vars, context_vars>>

\* The tokenizer meets the opening delimiter `tag` of a text in `data`.
Tokinize(tag, rest) ==
    /\ text_parser.at = "idle"
    /\ tokinizer.data = <<>>
    /\ tokinizer' = tokinizer_new(<<tag>> \o rest)
    /\ text_parser' = [text_parser EXCEPT !.tag = tag]
    /\ TextUnchanged

TextParse ==
    /\ text_parser.at = "idle"
    /\ tokinizer.data # <<>>
    /\ tokinizer' = increase_index(tokinizer)
    /\ text_parser' = [text_parser EXCEPT !.at = "loop", !.ch = NUL, !.symbol = <<>>]
    /\ TextUnchanged

TextLoop ==
    /\ text_parser.at = "loop"
    /\ ~is_end(tokinizer)
    /\ tokinizer' = parse_loop(tokinizer, text_parser).tokinizer
    /\ text_parser' = parse_loop(tokinizer, text_parser).parser
    /\ TextUnchanged

TextLoopEnd ==
    /\ text_parser.at = "loop"
    /\ is_end(tokinizer)
    /\ text_parser' = [text_parser EXCEPT !.at = "after"]
    /\ UNCHANGED tokinizer
    /\ TextUnchanged

TextReturn ==
    /\ text_parser.at = "after"
    /\ text_parser' = [text_parser EXCEPT !.at = "done",
                                          !.result = parse_return(tokinizer, text_parser)]
    /\ UNCHANGED tokinizer
    /\ TextUnchanged

InitText == InitContext

NextText ==
    \/ \E tag \in Tags, rest \in SeqsUpTo(Chars, MaxText - 1) : Tokinize(tag, rest)
    \/ TextParse
    \/ TextLoop
    \/ TextLoopEnd
    \/ TextReturn

SpecText == InitText /\ [][NextText]_vars

(***************************************************************************)
(* Properties of the parser, checked under SpecParser.                     *)
(***************************************************************************)
ControlParsers == {"OrParser", "AndParser", "EqualityParser", "ControlParser"}

\* C1: whenever FunctionDefinationParser::parse, parse_control,
\* ExpressionParser::parse or indentation_check returns an error, index
\* equals the value it had when the sub-parser was entered.
C1_IndexRestoredOnError ==
    /\ call.kind = "err"
    /\ call.parser \in ControlParsers \cup
           {"FunctionDefinationParser", "ExpressionParser", "indentation_check"}
    => index = call.entry.index

\* C2: after FunctionDefinationParser::parse or parse_control returns, with
\* Ok or with an error, flags equal the flags at entry.
C2_FlagsRestoredOnReturn ==
    /\ call.kind \in {"ok", "err"}
    /\ call.parser \in ControlParsers \cup {"FunctionDefinationParser"}
    => flags = call.entry.flags

ReturnedFunctionDefination ==
    /\ call.parser = "FunctionDefinationParser"
    /\ call.kind = "ok"
    /\ call.ast.type = "FunctionDefination"

EndsInReturn(items) == Len(items) > 0 /\ items[Len(items)].type = "Return"

Statements(body) == IF body.type = "Block" THEN body.items ELSE <<body>>

\* C4: when the parsed body does not already end in Return, the resulting
\* body is a Block of the original statements in their order followed by
\* exactly one Return(None); when it already ends in Return, nothing is
\* appended.
C4_ReturnNoneAppended ==
    ReturnedFunctionDefination
    => IF EndsInReturn(Statements(call.parsed_body))
       THEN call.ast.body = call.parsed_body
       ELSE /\ call.ast.body.type = "Block"
            /\ Len(call.ast.body.items) = Len(Statements(call.parsed_body)) + 1
            /\ \A i \in 1..Len(Statements(call.parsed_body)) :
                   call.ast.body.items[i] = Statements(call.parsed_body)[i]
            /\ call.ast.body.items[Len(call.ast.body.items)] = ReturnAst(NoneAst)

\* A function whose multi-line body did not end in Return has been returned.
C4_BlockWithoutReturn ==
    /\ ReturnedFunctionDefination
    /\ call.parsed_body.type = "Block"
    /\ ~EndsInReturn(call.parsed_body.items)

\* Whether every Break and Continue of ast lies in the body of a loop.
RECURSIVE LoopItemsUnderLoop(_, _)
LoopItemsUnderLoop(ast, in_loop) ==
    CASE ast.type \in {"Break", "Continue"} -> in_loop
      [] ast.type = "Block" ->
            \A i \in 1..Len(ast.items) : LoopItemsUnderLoop(ast.items[i], in_loop)
      [] ast.type = "EndlessLoop" -> LoopItemsUnderLoop(ast.body, TRUE)
      [] ast.type = "FunctionDefination" -> LoopItemsUnderLoop(ast.body, in_loop)
      [] OTHER -> TRUE

EndlessBreak == <<Kw("Endless"), Op("ColonMark"), WS(1), Kw("Break")>>

\* C5: break and continue are accepted only while LOOP is set: a program
\* that is only `kir` or only `devamet` fails with
\* BreakAndContinueBelongToLoops, `kir` in the body of an endless loop parses
\* to a Break node in that body, and no parsed program holds a Break or
\* Continue outside a loop body.
C5_LoopItemsBelongToLoops ==
    call.parser = "SyntaxParser"
    => /\ call.entry.index = 0 /\ tokens \in {<<Kw("Break")>>, <<Kw("Continue")>>}
          => call.kind = "err" /\ call.err = "BreakAndContinueBelongToLoops"
       /\ call.entry.index = 0 /\ tokens = EndlessBreak
          => call.kind = "ok" /\ call.ast = EndlessLoopAst(BreakAst)
       /\ call.kind = "ok" => LoopItemsUnderLoop(call.ast, FALSE)

\* `sonsuz: kir` has been parsed.
C5_BreakInEndlessLoop ==
    /\ call.parser = "SyntaxParser"
    /\ call.kind = "ok"
    /\ call.ast = EndlessLoopAst(BreakAst)

\* The operators of each level built on parse_control.
OperatorsOf(parser) ==
    CASE parser = "OrParser" -> {"Or"}
      [] parser = "AndParser" -> {"And"}
      [] parser = "EqualityParser" -> {"Equal", "NotEqual"}
      [] parser = "ControlParser" ->
            {"GreaterEqualThan", "GreaterThan", "LessEqualThan", "LessThan"}

\* Whether ts is `symbol op symbol op ... symbol` with every op in operators.
IsChain(ts, operators) ==
    /\ Len(ts) >= 3
    /\ Len(ts) % 2 = 1
    /\ \A i \in 1..Len(ts) :
           IF i % 2 = 1 THEN ts[i].type = "Symbol"
           ELSE ts[i].type = "Operator" /\ ts[i].name \in operators

\* ((s1 op s2) op s3) ... over the first n tokens of the chain ts.
RECURSIVE LeftNested(_, _)
LeftNested(ts, n) ==
    IF n = 1 THEN SymbolAst(ts[1].name)
    ELSE ControlAst(LeftNested(ts, n - 2), ts[n - 1].name, SymbolAst(ts[n].name))

\* C17: for a chain `a op1 b op2 c ...` whose operators belong to the level
\* of the parser, parse_control returns the left-nested Control
\* ((a op1 b) op2 c) ..., for every length of the chain.
C17_LeftAssociative ==
    /\ call.parser \in ControlParsers
    /\ call.entry.index = 0
    /\ IsChain(tokens, OperatorsOf(call.parser))
    => call.kind = "ok" /\ call.ast = LeftNested(tokens, Len(tokens))

\* A chain of at least two operators of one level has been parsed.
C17_ChainOfThree ==
    /\ call.parser \in ControlParsers
    /\ call.entry.index = 0
    /\ IsChain(tokens, OperatorsOf(call.parser))
    /\ Len(tokens) >= 5
    /\ call.kind = "ok"

\* Whether every FuncCall and AccessorFuncCall inside ast is marked.
RECURSIVE CallsMarked(_)
CallsMarked(ast) ==
    CASE ast.type = "FuncCall" ->
            ast.assign_to_temp /\ CallsMarked(ast.func_name_expression)
      [] ast.type = "AccessorFuncCall" ->
            ast.assign_to_temp /\ CallsMarked(ast.source)
      [] ast.type \in {"Control", "Binary"} ->
            CallsMarked(ast.left) /\ CallsMarked(ast.right)
      [] ast.type = "Indexer" -> CallsMarked(ast.body)
      [] OTHER -> TRUE

\* Whether the left operand of every Control node of the chain is marked.
RECURSIVE LeftOperandsMarked(_, _)
LeftOperandsMarked(ast, operators) ==
    IF ast.type = "Control" /\ ast.operator \in operators
    THEN CallsMarked(ast.left) /\ LeftOperandsMarked(ast.left, operators)
    ELSE TRUE

\* C18: in the AST returned by parse_control, every FuncCall and
\* AccessorFuncCall inside the left operand of a Control node built by that
\* call has assign_to_temp = true, a call parsed as the right operand of an
\* earlier operator of the chain included.
C18_LeftOperandCallsMarked ==
    call.parser \in ControlParsers /\ call.kind = "ok"
    => LeftOperandsMarked(call.ast, OperatorsOf(call.parser))

\* C19: the FuncCall stored as the indexer of an AccessorFuncCall built by
\* ExpressionParser has assign_to_temp = true, and the AccessorFuncCall has
\* assign_to_temp = false.
C19_AccessorCallMarked ==
    /\ call.parser = "ExpressionParser"
    /\ call.kind = "ok"
    /\ call.ast.type = "AccessorFuncCall"
    => call.ast.indexer.assign_to_temp /\ ~call.ast.assign_to_temp

\* Whether ts is `symbol . symbol . ... symbol`.
IsMemberChain(ts) == IsChain(ts, {"Dot"})

\* Indexer{Indexer{s1, Text(s2)}, Text(s3)} ... over the first n tokens.
RECURSIVE LeftNestedIndexers(_, _)
LeftNestedIndexers(ts, n) ==
    IF n = 1 THEN SymbolAst(ts[1].name)
    ELSE IndexerAst(LeftNestedIndexers(ts, n - 2), TextAst(ts[n].name))

\* C20: a chain of member accesses `a.b.c` parses to the left-nested
\* Indexer{body: Indexer{body: a, indexer: Text(b)}, indexer: Text(c)}:
\* every further suffix wraps the node built so far.
C20_SuffixChainLeftToRight ==
    /\ call.parser = "ExpressionParser"
    /\ call.entry.index = 0
    /\ IsMemberChain(tokens)
    => call.kind = "ok" /\ call.ast = LeftNestedIndexers(tokens, Len(tokens))

(***************************************************************************)
(* Properties of DynamicStorage, checked under SpecStorage.                *)
(***************************************************************************)
CellsHolding(value) == {i \in 1..Len(memory) : memory[i] = value}

\* C6: after any sequence of add_constant calls, each distinct value added
\* occupies exactly one slot, and the number of stored constants equals the
\* number of distinct values added.
C6_ConstantsDeduped ==
    hist.sets = 0
    => /\ \A value \in hist.added : Cardinality(CellsHolding(value)) = 1
       /\ Cardinality({i \in 1..Len(memory) : memory[i] \in ConstantValues})
              = Cardinality(hist.added)

\* C7: after any sequence of add_constant and add_variable calls, two
\* distinct variable names never share a location, and every variable's
\* location is greater than or equal to the number of constants.
C7_LayoutConstantsThenVariables ==
    \A a \in DOMAIN variables :
        /\ \A b \in DOMAIN variables : a # b => variables[a] # variables[b]
        /\ variables[a] >= Cardinality(hist.added)

\* C8: after build(), a set_variable_value call leaves every memory cell
\* that holds a constant unchanged, and every constant added earlier at the
\* location get_constant_location gave for it.
C8_ConstantsFrozenAfterBuild ==
    [][phase = "built" /\ hist.sets = 0 /\ ret'.op = "set_variable_value"
       => /\ \A i \in 1..Len(memory) :
                 memory[i] \in hist.added => memory'[i] = memory[i]
          /\ \A value \in hist.added :
                 position_in(memory', value) = position_in(memory, value)]_vars

\* C9: after build(), every location returned by get_constant_location and
\* get_variable_location, and every slot returned by get_free_temp_slot for
\* up to temp_size calls since the last reset, is less than memory.len().
C9_SlotsBelowMemoryLen ==
    phase = "built"
    => /\ ret.op \in {"get_constant_location", "get_variable_location"}
            /\ ret.value # None
          => ret.value < Len(memory)
       /\ ret.op = "get_free_temp_slot" /\ temp_counter <= temp_size
          => ret.value < Len(memory)

\* C10: a storage never holds more than 256 entries without a fatal error,
\* and no operation returns a slot index or size that is the true value
\* reduced modulo 256.
C10_HardCapOf256 ==
    /\ Usable => Len(memory) <= U8
    /\ ret.value # None => ret.value = ret.true_value

(***************************************************************************)
(* Properties of the compiler, checked under SpecCompiler.  `compiled` is  *)
(* the last compile call; CodeOf(ast) is what generating ast alone appends *)
(* to empty opcodes under the storage the call left behind.                *)
(***************************************************************************)
CodeOf(ast) ==
    generate_opcode(ast, [opcodes |-> <<>>, storages |-> storages, modules |-> modules])

RECURSIVE ConcatCode(_, _, _)
\* The code of asts[lo], ..., asts[hi], one after the other.
ConcatCode(asts, lo, hi) ==
    IF lo > hi THEN <<>>
    ELSE IF lo = hi THEN CodeOf(asts[lo]).o.opcodes
    ELSE ConcatCode(asts, lo, (lo + hi) \div 2) \o ConcatCode(asts, ((lo + hi) \div 2) + 1, hi)

AllCompile(asts) == \A i \in 1..Len(asts) : CodeOf(asts[i]).kind = "ok"

\* C11: a successful compile of Assignment{v, '=', e} appended the bytecode
\* of e, then Store, then the u8 slot of v; on fresh options `erhan = 2020`
\* gives Load c0, Store v0, the slot after the one constant.
C11_AssignmentStoresExpression ==
    (/\ compiled.kind = "ok"
     /\ compiled.ast.type = "Assignment"
     /\ compiled.ast.operator = "Assign")
    => /\ CodeOf(compiled.ast.expression).kind = "ok"
       /\ opcodes = compiled.before \o CodeOf(compiled.ast.expression).o.opcodes
                    \o <<Opc("Store"),
                         Byte(static_get_variable_location(storages[1],
                                                           compiled.ast.variable))>>
       /\ (compiled.ast = AssignmentAst("erhan", "Assign", NumberAst(2020))
           /\ compiled.before = <<>> /\ compiled.calls = 1)
          => opcodes = <<Opc("Load"), Byte(0), Opc("Store"), Byte(1)>>

BinaryOpcodes ==
    [Addition |-> "Addition", Subtraction |-> "Subraction",
     Multiplication |-> "Multiply", Division |-> "Division", Modulo |-> "Modulo"]

\* C12: a successful compile of Binary{left, op, right} with an arithmetic
\* operator appended the code of left, the code of right, then the one
\* opcode of the operator: Addition, Subraction, Multiply, Division, Modulo.
C12_BinaryOperandsThenOpcode ==
    (/\ compiled.kind = "ok"
     /\ compiled.ast.type = "Binary"
     /\ compiled.ast.operator \in DOMAIN BinaryOpcodes)
    => opcodes = compiled.before \o CodeOf(compiled.ast.left).o.opcodes
                 \o CodeOf(compiled.ast.right).o.opcodes
                 \o <<Opc(BinaryOpcodes[compiled.ast.operator])>>

\* C13: when every argument of a FuncCall compiles, the code of the
\* arguments is appended left to right; a resolved callee then gets
\* NativeCall, its slot and the number of arguments, an unresolved callee
\* gets no call instruction and compile returns an error.
C13_ArgumentsThenCall ==
    (/\ compiled.kind # "none"
     /\ compiled.ast.type = "FuncCall"
     /\ AllCompile(compiled.ast.arguments))
    => IF find_method(modules, compiled.ast.names).some
       THEN /\ compiled.kind = "ok"
            /\ opcodes = compiled.before
                   \o ConcatCode(compiled.ast.arguments, 1, Len(compiled.ast.arguments))
                   \o <<Opc("NativeCall"),
                        Byte(static_get_constant_location(storages[1],
                                 FuncNativeCall(compiled.ast.names))),
                        Byte(Len(compiled.ast.arguments))>>
       ELSE /\ compiled.kind = "err"
            /\ opcodes = compiled.before
                   \o ConcatCode(compiled.ast.arguments, 1, Len(compiled.ast.arguments))

\* C14: in the code of a successfully compiled `and`/`or` node the code of
\* the right operand lies behind a conditional jump that follows the code
\* of the left operand.
C14_ShortCircuit ==
    (/\ compiled.kind = "ok"
     /\ compiled.ast.type = "Control"
     /\ compiled.ast.operator \in {"And", "Or"})
    => \E i \in (Len(compiled.before) + Len(CodeOf(compiled.ast.left).o.opcodes) + 1)
                    ..Len(opcodes) :
          /\ opcodes[i] = Opc("JumpIfFalse")
          /\ \E j \in (i + 1)..Len(opcodes) :
                /\ j + Len(CodeOf(compiled.ast.right).o.opcodes) - 1 <= Len(opcodes)
                /\ SubSeq(opcodes, j, j + Len(CodeOf(compiled.ast.right).o.opcodes) - 1)
                       = CodeOf(compiled.ast.right).o.opcodes

\* The first child of asts that fails to compile, or 0.
FirstFailing(asts) ==
    IF AllCompile(asts) THEN 0
    ELSE CHOOSE i \in 1..Len(asts) :
            /\ CodeOf(asts[i]).kind # "ok"
            /\ \A j \in 1..(i - 1) : CodeOf(asts[j]).kind = "ok"

\* C15: when a child of a compiled Block fails, compile returns the error of
\* the first failing child, and what it appended is the code of the
\* children before that child and what the failing child appended itself:
\* no opcode of a later sibling.
C15_FirstErrorAborts ==
    (/\ compiled.ast.type = "Block"
     /\ FirstFailing(compiled.ast.items) # 0)
    => /\ compiled.kind = "err"
       /\ compiled.err = CodeOf(compiled.ast.items[FirstFailing(compiled.ast.items)]).err
       /\ opcodes = compiled.before
              \o ConcatCode(compiled.ast.items, 1, FirstFailing(compiled.ast.items) - 1)
              \o CodeOf(compiled.ast.items[FirstFailing(compiled.ast.items)]).o.opcodes

\* A compile of a Block failed at a child that has a later sibling which
\* compiles to some code.
C15_LaterSiblingCompiles ==
    /\ compiled.ast.type = "Block"
    /\ compiled.kind = "err"
    /\ FirstFailing(compiled.ast.items) \in 1..(Len(compiled.ast.items) - 1)
    /\ CodeOf(compiled.ast.items[Len(compiled.ast.items)]).kind = "ok"
    /\ CodeOf(compiled.ast.items[Len(compiled.ast.items)]).o.opcodes # <<>>

(***************************************************************************)
(* Properties of the function registry, checked under SpecContext.         *)
(***************************************************************************)
RECURSIVE PathToRoot(_)
\* The storages from s to the root along the parent links, s first.
PathToRoot(s) ==
    IF context_storages[s + 1] = None THEN <<s>>
    ELSE <<s>> \o PathToRoot(context_storages[s + 1])

\* The opcode functions called found.name in found.module_path that are
\* defined in storage s.
OpcodeFunctionsIn(s) ==
    {l \in 1..Len(functions) :
        /\ functions[l].callback = "Opcode"
        /\ functions[l].name = found.name
        /\ functions[l].module_path = found.module_path
        /\ functions[l].defined_storage_index = s}

NativeFunctions ==
    {l \in 1..Len(functions) :
        /\ functions[l].callback = "Native"
        /\ functions[l].name = found.name
        /\ functions[l].module_path = found.module_path}

FoundPath == PathToRoot(found.start_storage_index)

\* The position on the path from the start storage of the nearest storage
\* that defines an opcode function of the name, or 0.
Nearest ==
    IF \A i \in 1..Len(FoundPath) : OpcodeFunctionsIn(FoundPath[i]) = {} THEN 0
    ELSE CHOOSE i \in 1..Len(FoundPath) :
            /\ OpcodeFunctionsIn(FoundPath[i]) # {}
            /\ \A j \in 1..(i - 1) : OpcodeFunctionsIn(FoundPath[j]) = {}

\* What the walk along the parent links returns: an opcode function of the
\* nearest storage on the path that defines one, otherwise no opcode
\* function, and None when nothing of that name is registered.
ResolvedByWalk ==
    IF Nearest # 0
    THEN found.function \in OpcodeFunctionsIn(FoundPath[Nearest])
    ELSE /\ found.function # None => functions[found.function].callback = "Native"
         /\ NativeFunctions = {} => found.function = None

\* C16 as stated: get_function(name, module_path, s) returns an opcode
\* function iff one of that name and module path is defined in s or an
\* ancestor of s, and then one of the storage nearest to s; never one of a
\* sibling or descendant storage; None when the walk ends without a match.
C16_ResolvedByWalk == found.called => ResolvedByWalk

\* C16, amended: that holds when no native function has the name and the
\* module path; when one has, the call returns the first entry of functions
\* that is such a native function or such an opcode function defined in s
\* itself.
C16_ResolvedByWalkUnlessNative ==
    found.called =>
        IF NativeFunctions = {} THEN ResolvedByWalk
        ELSE /\ found.function \in
                    NativeFunctions \cup OpcodeFunctionsIn(found.start_storage_index)
             /\ \A l \in NativeFunctions \cup OpcodeFunctionsIn(found.start_storage_index) :
                    found.function <= l

\* A call that had to walk: two opcode functions of the name are defined in
\* different ancestors of the start storage, none in the start storage, and
\* the one of the nearer ancestor was returned.
C16_NearestOfTwoAncestors ==
    /\ found.called
    /\ NativeFunctions = {}
    /\ Len(FoundPath) = 3
    /\ Nearest = 2
    /\ OpcodeFunctionsIn(FoundPath[3]) # {}
    /\ found.function \in OpcodeFunctionsIn(FoundPath[2])

(***************************************************************************)
(* Further properties of the parser, checked under SpecParser.             *)
(***************************************************************************)
IsBlank(i) == HasToken(i) /\ TokenAt(i).type \in {"WhiteSpace", "NewLine"}

\* The token at i is a WhiteSpace, or a NewLine not directly followed by a
\* NewLine, whose width differs from the indentation n.
Misaligned(i, n) ==
    /\ IsBlank(i)
    /\ TokenAt(i).size # n
    /\ TokenAt(i).type = "NewLine" => ~(HasToken(i + 1) /\ TokenAt(i + 1).type = "NewLine")

RECURSIVE ScanStop(_, _)
\* Where the scan of the blank tokens from i stops: at the first token that
\* is not blank or is misaligned, or at the end.
ScanStop(i, n) == IF IsBlank(i) /\ ~Misaligned(i, n) THEN ScanStop(i + 1, n) ELSE i

\* C21: indentation_check returns IndentationIssue iff the scan of the
\* whitespace and newline tokens from the cursor meets a misaligned token
\* (a NewLine directly followed by a NewLine is skipped unchecked);
\* otherwise it returns Ok with the cursor on the first token that is
\* neither whitespace nor newline.
C21_IndentationCheckScan ==
    call.parser = "indentation_check" =>
        IF Misaligned(ScanStop(call.entry.index, call.entry.indentation),
                      call.entry.indentation)
        THEN call.kind = "err" /\ call.err = "IndentationIssue"
        ELSE call.kind = "ok"
             /\ index = ScanStop(call.entry.index, call.entry.indentation)

RECURSIVE FirstLine(_)
\* The NewLine that starts the first non-blank line at or after i: NewLines
\* directly followed by a NewLine are blank lines.
FirstLine(i) ==
    IF HasToken(i + 1) /\ TokenAt(i).type = "NewLine" /\ TokenAt(i + 1).type = "NewLine"
    THEN FirstLine(i + 1) ELSE i

\* in_indication was called in front of a block that has a non-blank line.
EntersBlock ==
    /\ call.parser = "in_indication"
    /\ HasToken(FirstLine(call.entry.index) + 1)
    /\ TokenAt(FirstLine(call.entry.index)).type = "NewLine"

\* The first half of C22: in_indication sets the indentation to the width of
\* the block's first non-blank line when that width is strictly greater
\* than the indentation at entry, and otherwise returns IndentationIssue
\* and leaves the indentation as it was.
InIndicationRaises ==
    /\ EntersBlock =>
          IF TokenAt(FirstLine(call.entry.index)).size > call.entry.indentation
          THEN call.kind = "ok"
               /\ indentation = TokenAt(FirstLine(call.entry.index)).size
          ELSE call.kind = "err" /\ call.err = "IndentationIssue"
               /\ indentation = call.entry.indentation
    /\ (call.parser = "in_indication" /\ ~EntersBlock) =>
          indentation = call.entry.indentation

\* C22: in_indication raises the indentation to the width of the block's
\* first non-blank line only if that width is strictly greater than the
\* indentation at entry (otherwise IndentationIssue, indentation unchanged),
\* and after FunctionDefinationParser::parse returned, with Ok or with an
\* error, the indentation is what it was before the function definition.
C22_IndentationRaisedAndRestored ==
    /\ InIndicationRaises
    /\ (call.parser = "FunctionDefinationParser" /\ call.kind \in {"ok", "err"})
           => indentation = call.entry.indentation

RECURSIVE NoShortBlock(_)
\* No Block in the program and loop bodies of ast lists fewer than two
\* statements.
NoShortBlock(ast) ==
    CASE ast.type = "Block" ->
            Len(ast.items) >= 2 /\ \A i \in 1..Len(ast.items) : NoShortBlock(ast.items[i])
      [] ast.type \in {"EndlessLoop", "FunctionDefination"} -> NoShortBlock(ast.body)
      [] OTHER -> TRUE

\* ts is a program of one-symbol statements, one per line.
IsSymbolLines(ts) ==
    /\ Len(ts) % 2 = 1
    /\ \A i \in 1..Len(ts) :
          IF i % 2 = 1 THEN ts[i].type = "Symbol" ELSE ts[i] = NL(0)

SymbolLines(ts) == [i \in 1..((Len(ts) + 1) \div 2) |-> SymbolAst(ts[2 * i - 1].name)]

ErhanAssignment(v) == AssignmentAst(SymbolAst("erhan"), "Assign", NumberAst(v))

\* C26: a program or loop body of exactly one statement parses to that
\* statement's node, not to a Block (`erhan = 2020` is an Assignment, the
\* endless loop over one assignment holds the Assignment), and a body of two
\* or more statements parses to a Block of the statements in source order.
C26_SingleStatementNotWrapped ==
    (/\ call.parser = "SyntaxParser"
     /\ call.kind = "ok"
     /\ call.entry = [index |-> 0, indentation |-> 0, flags |-> NONE])
    => /\ NoShortBlock(call.ast)
       /\ IsSymbolLines(tokens) =>
             call.ast = IF Len(tokens) = 1 THEN SymbolLines(tokens)[1]
                        ELSE BlockAst(SymbolLines(tokens))
       /\ tokens = <<Sym("erhan"), WS(1), Op("Assign"), WS(1), IntTok(2020)>>
             => call.ast = ErhanAssignment(2020)
       /\ tokens = <<Kw("Endless"), Op("ColonMark"), NL(4), Sym("erhan"), Op("Assign"),
                     IntTok(123), NL(0)>>
             => call.ast = EndlessLoopAst(ErhanAssignment(123))
       /\ (Len(tokens) = 15 /\ tokens[1] = Kw("Endless"))
             => call.ast = EndlessLoopAst(BlockAst(
                    <<ErhanAssignment(123),
                      FuncCallAst(SymbolAst("print"), <<NumberAst(1)>>, FALSE),
                      BreakAst>>))

\* The parse of the endless loop over three statements returned.
C26_LoopOfThreeStatements ==
    /\ call.parser = "SyntaxParser"
    /\ call.kind = "ok"
    /\ call.ast.type = "EndlessLoop"
    /\ call.ast.body.type = "Block"
    /\ Len(call.ast.body.items) = 3

\* C27: indentation_check and in_indication never inspect a token that does
\* not exist: whenever they look at the token after a NewLine, the NewLine
\* is not the last token, for every token vector and cursor position.
C27_NextTokenExists ==
    call.parser \in {"indentation_check", "in_indication"} => call.kind # "panic"

RECURSIVE SkipBlank(_)
\* The first position at or after i that holds no WhiteSpace or NewLine.
SkipBlank(i) == IF IsBlank(i) THEN SkipBlank(i + 1) ELSE i

\* C28: SyntaxParser::parse returns Ok only when the whole token vector was
\* consumed: when the top-level block parser succeeds and a token remains
\* behind the trailing WhiteSpace and NewLine tokens, the result is
\* SyntaxError; an error of the block parser is returned unchanged.
C28_WholeInputConsumed ==
    call.parser = "SyntaxParser" =>
        /\ call.kind = "ok" => index = Len(tokens)
        /\ MultiLineBlockParser(call.entry).kind = "err" =>
              /\ call.kind = "err"
              /\ call.err = MultiLineBlockParser(call.entry).err
              /\ Cursor = MultiLineBlockParser(call.entry).p
        /\ (/\ MultiLineBlockParser(call.entry).kind = "ok"
            /\ HasToken(SkipBlank(MultiLineBlockParser(call.entry).p.index)))
           => call.kind = "err" /\ call.err = "SyntaxError"
        /\ (/\ MultiLineBlockParser(call.entry).kind = "ok"
            /\ ~HasToken(SkipBlank(MultiLineBlockParser(call.entry).p.index)))
           => call.kind = "ok" /\ call.ast = MultiLineBlockParser(call.entry).ast

\* parse returned SyntaxError for a program whose first statement parsed.
C28_TokenLeftOver ==
    /\ call.parser = "SyntaxParser"
    /\ call.err = "SyntaxError"
    /\ MultiLineBlockParser(call.entry).kind = "ok"
    /\ MultiLineBlockParser(call.entry).ast.type # "None"
    /\ HasToken(index)

\* Whether every Break and Continue of ast lies in the body of a loop of the
\* same function body.
RECURSIVE LoopItemsInOwnLoop(_, _)
LoopItemsInOwnLoop(ast, in_loop) ==
    CASE ast.type \in {"Break", "Continue"} -> in_loop
      [] ast.type = "Block" ->
            \A i \in 1..Len(ast.items) : LoopItemsInOwnLoop(ast.items[i], in_loop)
      [] ast.type = "EndlessLoop" -> LoopItemsInOwnLoop(ast.body, TRUE)
      [] ast.type = "FunctionDefination" -> LoopItemsInOwnLoop(ast.body, FALSE)
      [] OTHER -> TRUE

\* C29: the LOOP flag does not reach into a function body: the body of a
\* function defined inside a loop body is parsed with LOOP cleared, so a
\* break or continue directly in that function body is rejected with
\* BreakAndContinueBelongToLoops and no parsed program holds one.
C29_LoopFlagStopsAtFunction ==
    (call.parser = "SyntaxParser" /\ call.entry.index = 0)
    => /\ call.kind = "ok" => LoopItemsInOwnLoop(call.ast, FALSE)
       /\ tokens = <<Kw("Endless"), Op("ColonMark"), NL(2)>> \o FnHeader
                       \o <<WS(1), Kw("Break")>>
          => call.kind = "err" /\ call.err = "BreakAndContinueBelongToLoops"

(***************************************************************************)
(* Properties of BramaError, checked under SpecError.                      *)
(***************************************************************************)
RECURSIVE NumberOf(_)
\* The number a sequence of decimal digits stands for, -1 when the sequence
\* is empty or holds something that is no digit.
NumberOf(digits) ==
    IF digits = <<>> \/ \E i \in 1..Len(digits) :
                            digits[i] \notin {"0", "1", "2", "3", "4", "5", "6", "7", "8", "9"}
    THEN -1
    ELSE LET last == CHOOSE d \in 0..9 : Decimal(d) = <<digits[Len(digits)]>> IN
         IF Len(digits) = 1 THEN last
         ELSE 10 * NumberOf(SubSeq(digits, 1, Len(digits) - 1)) + last

\* C23: the variants of BramaError have pairwise distinct codes, all at
\* least 100 and below 256, BreakAndContinueBelongToLoops has 119, and every
\* text as_text rendered is `(#<code>) <message>` with exactly the code of
\* its variant.
C23_CodesRenderedExactly ==
    /\ Cardinality({discriminant(BramaError[i]) : i \in 1..Len(BramaError)})
           = Len(BramaError)
    /\ Cardinality({BramaError[i] : i \in 1..Len(BramaError)}) = Len(BramaError)
    /\ \A i \in 1..Len(BramaError) : discriminant(BramaError[i]) \in 100..(U8 - 1)
    /\ discriminant("BreakAndContinueBelongToLoops") = 119
    /\ \A i \in 1..Len(messages) :
          /\ Len(messages[i].text) >= 4
          /\ messages[i].text[1] = "(#"
          /\ messages[i].text[Len(messages[i].text) - 1] = ") "
          /\ messages[i].text[Len(messages[i].text)] = message[messages[i].error]
          /\ NumberOf(SubSeq(messages[i].text, 2, Len(messages[i].text) - 2))
                 = discriminant(messages[i].error)

\* The text of BreakAndContinueBelongToLoops has been rendered, with 119.
C23_Rendered119 ==
    \E i \in 1..Len(messages) :
        /\ messages[i].error = "BreakAndContinueBelongToLoops"
        /\ SubSeq(messages[i].text, 1, 5) = <<"(#", "1", "1", "9", ") ">>

(***************************************************************************)
(* Properties of BasicInnerClass, checked under SpecClass.                 *)
(***************************************************************************)
\* C24: after any sequence of add_property and add_method calls on a default
\* class, property_count is the number of distinct names added (properties
\* and methods share the names, adding a name again replaces the entry), and
\* has_element(name) holds exactly when get_element(name) returns a property.
C24_CountsDistinctNames ==
    /\ property_count(opcode_class) = Cardinality(opcode_class.added)
    /\ \A name \in PropertyNames \cup {"pop"} :
          /\ has_element(opcode_class, name) <=> get_element(opcode_class, name).some
          /\ has_element(opcode_class, name) <=> name \in opcode_class.added

\* Three calls added two names: one was added twice, and a method is among
\* the entries.
C24_NameAddedTwice ==
    /\ opcode_class.adds = 3
    /\ property_count(opcode_class) = 2
    /\ \E name \in PropertyNames :
          /\ get_element(opcode_class, name).some
          /\ get_element(opcode_class, name).data.kind = "Function"

(***************************************************************************)
(* Properties of the NaN-boxed words, checked under SpecObject.            *)
(***************************************************************************)
\* C25: the three tag words QNAN|0, QNAN|1 and QNAN|2 are pairwise distinct
\* and none has POINTER_FLAG; QNAN, POINTER_FLAG and POINTER_MASK share no
\* bit; and the word of a pointer to a 48-bit handle differs from the three
\* tag words and gives the handle back when masked with POINTER_MASK.
C25_TagsAndPointersApart ==
    /\ EMPTY_FLAG # FALSE_FLAG /\ EMPTY_FLAG # TRUE_FLAG /\ FALSE_FLAG # TRUE_FLAG
    /\ \A flag \in {EMPTY_FLAG, FALSE_FLAG, TRUE_FLAG} : WordAnd(flag, POINTER_FLAG) = {}
    /\ WordAnd(QNAN, POINTER_FLAG) = {}
    /\ WordAnd(QNAN, POINTER_MASK) = {}
    /\ WordAnd(POINTER_FLAG, POINTER_MASK) = {}
    /\ vm_object.from = "tag" => WordAnd(vm_object.word, POINTER_FLAG) = {}
    /\ (vm_object.from = "pointer" /\ vm_object.handle \subseteq 0..47) =>
          /\ vm_object.word \notin {EMPTY_FLAG, FALSE_FLAG, TRUE_FLAG}
          /\ WordAnd(vm_object.word, POINTER_MASK) = vm_object.handle

\* A pointer whose handle has the low bits of TAG_TRUE and the highest of
\* the 48 bits.
C25_PointerLikeTrue ==
    /\ vm_object.from = "pointer"
    /\ vm_object.handle = Word(0, 32768, 0, TAG_TRUE)
    /\ vm_object.word = {1, 47} \cup 50..63

(***************************************************************************)
(* Properties of TextParser::parse, checked under SpecText.                *)
(***************************************************************************)
\* The positions of the delimiters after the opening one that no backslash
\* directly precedes.
ClosingDelimiters ==
    {j \in 2..Len(tokinizer.data) :
        /\ tokinizer.data[j] = text_parser.tag
        /\ tokinizer.data[j - 1] # Backslash}

\* C30: parse returns 'Missing string deliminator' exactly when the input
\* ends before a closing delimiter that no backslash directly precedes (an
\* empty remainder and a text ending in backslash and delimiter included);
\* otherwise it returns a Text and the cursor of the tokenizer is directly
\* after that closing delimiter; and the loop ends: it never takes more
\* turns than characters it has passed.
C30_MissingDelimiterExactly ==
    /\ text_parser.iterations <= tokinizer.iter
    /\ tokinizer.iter <= Len(tokinizer.data)
    /\ text_parser.at = "done" =>
          /\ text_parser.result.kind \in {"Err", "Text"}
          /\ text_parser.result.kind = "Err" <=> ClosingDelimiters = {}
          /\ text_parser.result.kind = "Err" =>
                /\ text_parser.result.message = "Missing string deliminator"
                /\ tokinizer.iter = Len(tokinizer.data)
          /\ text_parser.result.kind = "Text" =>
                /\ tokinizer.iter \in ClosingDelimiters
                /\ \A j \in ClosingDelimiters : tokinizer.iter <= j

\* A text that ends in backslash and delimiter was refused, after an escaped
\* delimiter was passed.
C30_EndsWithEscapedDelimiter ==
    /\ text_parser.at = "done"
    /\ tokinizer.data = <<"\"", "a", Backslash, "\"">>
    /\ text_parser.tag = "\""
    /\ text_parser.result.kind = "Err"

\* A text with an escaped delimiter inside was accepted.
C30_EscapedDelimiterInside ==
    /\ text_parser.at = "done"
    /\ tokinizer.data = <<"'", Backslash, "'", "a", "'">>
    /\ text_parser.result.kind = "Text"
    /\ tokinizer.iter = 5

====
